---------------------------- MODULE Spec2Model ----------------------------
(***************************************************************************)
(* A model of lasso-issues: the parent/child resolution of issues          *)
(* (build_parent_child_map over get_sub_issues / get_parent_issue), the    *)
(* known-bugs and planning reports built on it, and the metrics rollup of  *)
(* create_md_issue_report.                                                 *)
(***************************************************************************)
EXTENDS Integers, Sequences, FiniteSets, TLC

(***************************************************************************)
(* Bounds of the model.                                                    *)
(***************************************************************************)
\* longest issue list handed to build_parent_child_map / a report
MaxIssues == 3
\* longest payload list a fetch answers with
MaxSubs == 2
\* most parent/child links the tracker holds in a report run
MaxLinks == 2
\* number of repositories of a metrics run
MaxRepos == 2
\* largest number of issues of one type in one repository (metrics)
MaxCount == 2
MaxListed == 2
MaxThemeCalls == 2
MaxRows == 2

\* numbers of the issues of the repository in a report, and of the issues handed
\* to a single call of build_parent_child_map; the number of an issue outside
IssueNums == 1..3
ResolveNums == 1..2
ExternalNums == {9}

(***************************************************************************)
(* Program constants (utils.py).                                           *)
(***************************************************************************)
ISSUE_TYPES == <<"bug", "enhancement", "requirement", "theme", "task">>
TOP_PRIORITIES == <<"p.must-have", "s.high", "s.critical">>

SeqToSet(s) == {s[j] : j \in 1..Len(s)}

\* s is the beginning of t
IsPrefix(s, t) == Len(s) <= Len(t) /\ SubSeq(t, 1, Len(s)) = s

\* every sequence over S of length at most n
SeqsUpTo(S, n) == UNION {[1..k -> S] : k \in 0..n}

(***************************************************************************)
(* Python values that a JSON body decodes to.  A value carries a tag t:    *)
(* "null", "int", "list" (v: the items) or "obj" (a dict; number: the      *)
(* value under the key "number", absent when has is FALSE; a dict with no  *)
(* key at all has empty TRUE).                                             *)
(***************************************************************************)
JNull == [t |-> "null"]
JInt(n) == [t |-> "int", v |-> n]
JList(items) == [t |-> "list", v |-> items]
JObj(n) == [t |-> "obj", has |-> TRUE, number |-> n, empty |-> FALSE]
JObjNoNumber == [t |-> "obj", has |-> FALSE, number |-> JNull, empty |-> FALSE]
JObjEmpty == [t |-> "obj", has |-> FALSE, number |-> JNull, empty |-> TRUE]

\* Python truthiness: `if x:`
Truthy(x) ==
    CASE x.t = "null" -> FALSE
      [] x.t = "int" -> x.v # 0
      [] x.t = "list" -> Len(x.v) > 0
      [] x.t = "obj" -> ~x.empty

\* x.get("number"): only a dict has .get; a missing key gives None
HasGet(x) == x.t = "obj"
GetNumber(x) == IF x.has THEN x.number ELSE JNull

\* `k in issue_map` needs a hashable k: a list or a dict is not
Hashable(x) == x.t \in {"null", "int"}

(***************************************************************************)
(* An ordered dict (Python's dict keeps insertion order): a sequence of    *)
(* [k, v] entries with distinct keys.                                      *)
(***************************************************************************)
DictKeys(d) == {d[j].k : j \in 1..Len(d)}
DictGet(d, key) == d[CHOOSE j \in 1..Len(d) : d[j].k = key].v
\* d[key] = val: an existing key keeps its position
DictSet(d, key, val) ==
    IF key \in DictKeys(d)
    THEN [j \in 1..Len(d) |-> IF d[j].k = key THEN [k |-> key, v |-> val] ELSE d[j]]
    ELSE Append(d, [k |-> key, v |-> val])

(***************************************************************************)
(* github.py: the answer of the HTTP GET is a response                     *)
(*   [kind |-> "exception"]              session.get raised                *)
(*   [kind |-> "status", code |-> c]     a status other than 200           *)
(*   [kind |-> "badjson"]                200, and response.json() raises   *)
(*   [kind |-> "json", body |-> x]       200, body decoded to x            *)
(***************************************************************************)
RespException == [kind |-> "exception", code |-> 0, body |-> JNull]
RespStatus(c) == [kind |-> "status", code |-> c, body |-> JNull]
RespBadJson == [kind |-> "badjson", code |-> 200, body |-> JNull]
RespJson(x) == [kind |-> "json", code |-> 200, body |-> x]

\* get_sub_issues: the decoded body on 200, [] on 404, another status or an exception
get_sub_issues(resp) ==
    IF resp.kind = "json" THEN resp.body ELSE JList(<<>>)

\* get_parent_issue: the decoded body on 200, None otherwise
get_parent_issue(resp) ==
    IF resp.kind = "json" THEN resp.body ELSE JNull

(***************************************************************************)
(* build_parent_child_map.  The accumulators of one call:                  *)
(*   p2c      parent_to_children, an ordered dict number -> sequence       *)
(*   child    child_issues, a set of numbers                               *)
(*   fetched  fetched_parents, an ordered dict number -> parent data       *)
(*   raised   an exception left the function                               *)
(***************************************************************************)
EmptyAcc == [p2c |-> <<>>, child |-> {}, fetched |-> <<>>, raised |-> FALSE]

\* issue_map = {issue.number: issue for issue in issues_list}: its keys
IssueMapKeys(issues) == SeqToSet(issues)

\* AddChild with line 101 (child_issues.add) left out
AddChildNoSet(st, child_num) ==
    [st EXCEPT !.children = Append(@, child_num)]

\* lines 100-101: children.append(child_num); child_issues.add(child_num)
AddChild(st, child_num) ==
    [st EXCEPT !.children = Append(@, child_num), !.child = @ \cup {child_num}]

\* lines 97-101: the inner loop over the sub-issues of one issue
RECURSIVE ScanSubIssues(_, _, _)
ScanSubIssues(items, keys, st) ==
    IF items = <<>> \/ st.raised THEN st
    ELSE LET sub_issue == Head(items) IN
         IF ~HasGet(sub_issue) THEN [st EXCEPT !.raised = TRUE]
         ELSE LET child_num == GetNumber(sub_issue) IN
              IF ~Truthy(child_num) THEN ScanSubIssues(Tail(items), keys, st)
              ELSE IF ~Hashable(child_num) THEN [st EXCEPT !.raised = TRUE]
              ELSE IF child_num.v \in keys
              THEN ScanSubIssues(Tail(items), keys, AddChild(st, child_num.v))
              ELSE ScanSubIssues(Tail(items), keys, st)

\* RecordChildren without the test of line 103
RecordChildrenAlways(p2c, number, children) == DictSet(p2c, number, children)

\* lines 103-104: a parent is recorded only with at least one child in the list
RecordChildren(p2c, number, children) ==
    IF children # <<>> THEN DictSet(p2c, number, children) ELSE p2c

\* SubIssuesIteration with the guards of lines 95 and 103 left out: every issue
\* becomes a key, also with no child
SubIssuesIterationUnguarded(acc, keys, number, resp) ==
    LET sub_issues == get_sub_issues(resp) IN
    IF sub_issues.t # "list" THEN acc
    ELSE LET st == ScanSubIssues(sub_issues.v, keys,
                       [children |-> <<>>, child |-> acc.child, raised |-> FALSE])
         IN IF st.raised THEN [acc EXCEPT !.raised = TRUE]
            ELSE [acc EXCEPT !.child = st.child,
                             !.p2c = DictSet(acc.p2c, number, st.children)]

\* lines 94-104: one iteration of the first pass, for the issue `number`
SubIssuesIteration(acc, keys, number, resp) ==
    LET sub_issues == get_sub_issues(resp) IN
    IF ~Truthy(sub_issues) THEN acc
    ELSE IF sub_issues.t # "list" THEN [acc EXCEPT !.raised = TRUE]
    ELSE LET st == ScanSubIssues(sub_issues.v, keys,
                       [children |-> <<>>, child |-> acc.child, raised |-> FALSE])
         IN IF st.raised THEN [acc EXCEPT !.raised = TRUE]
            ELSE [acc EXCEPT !.child = st.child,
                             !.p2c = RecordChildren(acc.p2c, number, st.children)]

\* SkipKnownParent without the test of line 110
SkipKnownParentNever(p2c, number) == FALSE

\* line 110: the second pass skips an issue already known as a parent
SkipKnownParent(p2c, number) == number \in DictKeys(p2c)

\* LinkFetchedParent with line 120 adding the parent, not the child, to the set
LinkFetchedParentAddsParent(acc, parent_num, parent_data, number) ==
    LET base == IF parent_num \in DictKeys(acc.p2c) THEN DictGet(acc.p2c, parent_num)
                ELSE <<>>
    IN [acc EXCEPT !.fetched = DictSet(@, parent_num, parent_data),
                   !.child = @ \cup {parent_num},
                   !.p2c = DictSet(@, parent_num, Append(base, number))]

\* lines 117-125: the parent is outside the list: keep its data, link the child
LinkFetchedParent(acc, parent_num, parent_data, number) ==
    LET base == IF parent_num \in DictKeys(acc.p2c) THEN DictGet(acc.p2c, parent_num)
                ELSE <<>>
    IN [acc EXCEPT !.fetched = DictSet(@, parent_num, parent_data),
                   !.child = @ \cup {number},
                   !.p2c = DictSet(@, parent_num, Append(base, number))]

\* ParentIteration without the test `parent_num not in issue_map` of line 118
ParentIterationAnyParent(acc, keys, number, resp) ==
    IF SkipKnownParent(acc.p2c, number) THEN acc
    ELSE LET parent_data == get_parent_issue(resp) IN
         IF ~Truthy(parent_data) THEN acc
         ELSE IF ~HasGet(parent_data) THEN [acc EXCEPT !.raised = TRUE]
         ELSE LET parent_num == GetNumber(parent_data) IN
              IF ~Truthy(parent_num) THEN acc
              ELSE IF ~Hashable(parent_num) THEN [acc EXCEPT !.raised = TRUE]
              ELSE LinkFetchedParent(acc, parent_num.v, parent_data, number)

\* lines 108-125: one iteration of the second pass, for the issue `number`
ParentIteration(acc, keys, number, resp) ==
    IF SkipKnownParent(acc.p2c, number) THEN acc
    ELSE LET parent_data == get_parent_issue(resp) IN
         IF ~Truthy(parent_data) THEN acc
         ELSE IF ~HasGet(parent_data) THEN [acc EXCEPT !.raised = TRUE]
         ELSE LET parent_num == GetNumber(parent_data) IN
              IF ~Truthy(parent_num) THEN acc
              ELSE IF ~Hashable(parent_num) THEN [acc EXCEPT !.raised = TRUE]
              ELSE IF parent_num.v \notin keys
              THEN LinkFetchedParent(acc, parent_num.v, parent_data, number)
              ELSE acc

\* lines 93-104: the first pass over the rest of the list; sub_answers maps an
\* issue number to the response of its sub-issue fetch
RECURSIVE FirstPass(_, _, _, _)
FirstPass(rest, keys, sub_answers, acc) ==
    IF rest = <<>> \/ acc.raised THEN acc
    ELSE FirstPass(Tail(rest), keys, sub_answers,
                   SubIssuesIteration(acc, keys, Head(rest), sub_answers[Head(rest)]))

\* lines 108-125: the second pass over the rest of the list
RECURSIVE SecondPass(_, _, _, _)
SecondPass(rest, keys, parent_answers, acc) ==
    IF rest = <<>> \/ acc.raised THEN acc
    ELSE SecondPass(Tail(rest), keys, parent_answers,
                    ParentIteration(acc, keys, Head(rest), parent_answers[Head(rest)]))

\* build_parent_child_map, the whole call
build_parent_child_map(issues, sub_answers, parent_answers, with_parents) ==
    LET keys == IssueMapKeys(issues)
        first == FirstPass(issues, keys, sub_answers, EmptyAcc)
    IN IF with_parents /\ ~first.raised
       THEN SecondPass(issues, keys, parent_answers, first)
       ELSE first

(***************************************************************************)
(* github.py, GithubConnection: the connection kept in the class attribute *)
(* gh.  None is NoConnection; login(token) is a connection of that token.  *)
(* `token` stands for `token or os.environ.get("GITHUB_TOKEN")`, "" when   *)
(* neither is set.                                                         *)
(***************************************************************************)
NoConnection == [session |-> ""]
login(token) == [session |-> token]

\* get_connection whose `return cls.gh` sits inside the `if not cls.gh:` block:
\* a call that finds the connection already kept returns None
get_connection_return_in_if(kept, token) ==
    IF kept = NoConnection
    THEN IF token = ""
         THEN [gh |-> NoConnection, kept |-> kept, exit |-> TRUE]
         ELSE [gh |-> login(token), kept |-> login(token), exit |-> FALSE]
    ELSE [gh |-> NoConnection, kept |-> kept, exit |-> FALSE]

\* get_connection: [gh: what the call returns, kept: the class attribute after
\* the call, exit: sys.exit(1) was called]
get_connection(kept, token) ==
    IF kept = NoConnection
    THEN IF token = ""
         THEN [gh |-> NoConnection, kept |-> kept, exit |-> TRUE]
         ELSE [gh |-> login(token), kept |-> login(token), exit |-> FALSE]
    ELSE [gh |-> kept, kept |-> kept, exit |-> FALSE]

(***************************************************************************)
(* utils.py: type and priority of an issue, from its labels.               *)
(***************************************************************************)
\* the labels of the model that contain "p." or "s." (line 58 tests the substring)
PriorityLikeLabels ==
    {"p.must-have", "p.should-have", "s.high", "s.critical", "s.low", "needs.triage"}

\* get_issue_type: the first label that is an issue type, None ("") without one
RECURSIVE get_issue_type(_)
get_issue_type(labels) ==
    IF labels = <<>> THEN ""
    ELSE IF Head(labels) \in SeqToSet(ISSUE_TYPES) THEN Head(labels)
    ELSE get_issue_type(Tail(labels))

\* get_issue_priority: the first label with "p." or "s." in it, else "unknown"
RECURSIVE get_issue_priority(_)
get_issue_priority(labels) ==
    IF labels = <<>> THEN "unknown"
    ELSE IF Head(labels) \in PriorityLikeLabels THEN Head(labels)
    ELSE get_issue_priority(Tail(labels))

(***************************************************************************)
(* The report functions write to an MdUtils file: md is the sequence of    *)
(* its calls, new_header, new_line and new_table.  A table is kept as its  *)
(* header cells and its rows; the first cell of a row is the link to an    *)
(* issue, [indent, number]: indent is the "  ↳ " prefix of a child row.    *)
(***************************************************************************)
MdHeader(level, title) == [op |-> "header", level |-> level, title |-> title]
MdLine(text) == [op |-> "line", text |-> text]
MdTable(columns, head, rows) ==
    [op |-> "table", columns |-> columns, head |-> head, rows |-> rows]

LinkCell(indent, number) == [indent |-> indent, number |-> number]

RECURSIVE Concat(_)
Concat(ss) == IF ss = <<>> THEN <<>> ELSE Head(ss) \o Concat(Tail(ss))

\* next((i for i in issues if i.number == num), None) finds an issue
Found(issues, num) == num \in SeqToSet(issues)

\* OnDeck testing `priority == TOP_PRIORITIES[0]` instead of membership
OnDeckFirstOnly(priority) == IF priority = TOP_PRIORITIES[1] THEN "X" ELSE ""

\* `priority in TOP_PRIORITIES` decides the On Deck cell
OnDeck(priority) == IF priority \in SeqToSet(TOP_PRIORITIES) THEN "X" ELSE ""

\* a row of the known-bugs table: issue, severity, status (lines 172-176, 185-189)
KnownBugsRow(indent, number, states, labels) ==
    <<LinkCell(indent, number), get_issue_priority(labels[number]), states[number]>>

\* a row of a planning table: issue, type, priority, status, on deck
PlanningRow(indent, number, status, labels) ==
    LET issue_type == IF get_issue_type(labels[number]) = "" THEN "unknown"
                      ELSE get_issue_type(labels[number])
        priority == get_issue_priority(labels[number])
    IN <<LinkCell(indent, number), issue_type, priority, status, OnDeck(priority)>>

\* issues_map.get("bug", []) / issues_map["bug"]
BugsList(issues_map) ==
    IF "bug" \in DictKeys(issues_map) THEN DictGet(issues_map, "bug") ELSE <<>>

\* `show_parent_child and gh and org`
GroupingRequested(show, gh, org) == show /\ gh # NoConnection /\ org # ""

\* the reports leave fetch_parents at its default, False: no parent is fetched
NoParentAnswers == [n \in IssueNums |-> RespStatus(404)]

\* the parent/child data a report works with: what build_parent_child_map
\* returned, or the empty defaults when grouping is off
ReportHierarchy(issues, sub_answers, show, gh, org) ==
    IF GroupingRequested(show, gh, org)
    THEN build_parent_child_map(issues, sub_answers, NoParentAnswers, FALSE)
    ELSE EmptyAcc

\* lines 181-190: the child rows under a top-level bug
KnownBugsChildRows(bugs_list, children, states, labels) ==
    Concat([j \in 1..Len(children) |->
               IF Found(bugs_list, children[j])
               THEN <<KnownBugsRow(TRUE, children[j], states, labels)>>
               ELSE <<>>])

\* KnownBugsRows without the skip of lines 169-170: a child is a top-level row too
KnownBugsRowsNoSkip(bugs_list, h, states, labels) ==
    Concat([j \in 1..Len(bugs_list) |->
               <<KnownBugsRow(FALSE, bugs_list[j], states, labels)>>
                 \o (IF bugs_list[j] \in DictKeys(h.p2c)
                     THEN KnownBugsChildRows(bugs_list, DictGet(h.p2c, bugs_list[j]),
                                             states, labels)
                     ELSE <<>>)])

\* lines 167-190: the rows of the known-bugs table
KnownBugsRows(bugs_list, h, states, labels) ==
    Concat([j \in 1..Len(bugs_list) |->
               IF bugs_list[j] \in h.child THEN <<>>
               ELSE <<KnownBugsRow(FALSE, bugs_list[j], states, labels)>>
                    \o (IF bugs_list[j] \in DictKeys(h.p2c)
                        THEN KnownBugsChildRows(bugs_list, DictGet(h.p2c, bugs_list[j]),
                                                states, labels)
                        ELSE <<>>)])

\* KnownBugsSkipped counting the issues of every type, as the planning report does
KnownBugsSkippedNoIssue(issues_map) ==
    Len(Concat([j \in 1..Len(issues_map) |-> issues_map[j].v])) = 0

\* lines 145-146: the report is skipped without a bug
KnownBugsSkipped(issues_map) == Len(BugsList(issues_map)) = 0

\* convert_issues_to_known_bugs_report: [md: the calls made on md_file,
\* h: the hierarchy used, raised: an exception left the function]
convert_issues_to_known_bugs_report(repo_name, issues_map, states, labels, sub_answers, gh, show, org) ==
    IF KnownBugsSkipped(issues_map)
    THEN [md |-> <<>>, h |-> EmptyAcc, raised |-> FALSE]
    ELSE LET bugs_list == BugsList(issues_map)
             intro == <<MdHeader(2, repo_name), MdLine("known bugs")>>
             h == ReportHierarchy(bugs_list, sub_answers, show, gh, org)
         IN IF h.raised THEN [md |-> intro, h |-> h, raised |-> TRUE]
            ELSE [md |-> intro \o
                         <<MdLine(""),
                           MdTable(3, <<"Issue", "Severity", "Status">>,
                                   KnownBugsRows(bugs_list, h, states, labels))>>,
                  h |-> h, raised |-> FALSE]

\* lines 220-222: the lists of every type of the map, one after the other
AllIssues(issues_map) == Concat([j \in 1..Len(issues_map) |-> issues_map[j].v])

\* lines 240-244: some child of the list is closed
HasClosedChildren(all_issues, children, states) ==
    \E j \in 1..Len(children) :
        Found(all_issues, children[j]) /\ states[children[j]] = "closed"

\* ParentIssuesToAdd without the test `parent_issue.state == "open"` of line 245
RECURSIVE ParentIssuesToAddAnyState(_, _, _)
ParentIssuesToAddAnyState(p2c, all_issues, states) ==
    IF p2c = <<>> THEN <<>>
    ELSE (IF /\ Found(all_issues, Head(p2c).k)
             /\ HasClosedChildren(all_issues, Head(p2c).v, states)
          THEN <<Head(p2c).k>> ELSE <<>>)
         \o ParentIssuesToAddAnyState(Tail(p2c), all_issues, states)

\* lines 236-247: parent_issues_to_add, the keys of the open parents with a closed
\* child, in the order of the map
RECURSIVE ParentIssuesToAdd(_, _, _)
ParentIssuesToAdd(p2c, all_issues, states) ==
    IF p2c = <<>> THEN <<>>
    ELSE (IF /\ Found(all_issues, Head(p2c).k)
             /\ HasClosedChildren(all_issues, Head(p2c).v, states)
             /\ states[Head(p2c).k] = "open"
          THEN <<Head(p2c).k>> ELSE <<>>)
         \o ParentIssuesToAdd(Tail(p2c), all_issues, states)

\* lines 253-256: the issues that are a key of the map
ParentIssues(all_issues, h) ==
    SelectSeq(all_issues, LAMBDA n : n \in DictKeys(h.p2c))

\* StandaloneIssues without the test of line 257: a child is standalone too
StandaloneIssuesWithChildren(all_issues, h) ==
    SelectSeq(all_issues, LAMBDA n : n \notin DictKeys(h.p2c))

\* lines 257-259: the issues that are neither a key of the map nor a child
StandaloneIssues(all_issues, h) ==
    SelectSeq(all_issues, LAMBDA n : n \notin DictKeys(h.p2c) /\ n \notin h.child)

\* lines 286-300: under an in-progress parent, its closed children only
ClosedChildRows(all_issues, children, states, labels) ==
    Concat([j \in 1..Len(children) |->
               IF Found(all_issues, children[j]) /\ states[children[j]] = "closed"
               THEN <<PlanningRow(TRUE, children[j], states[children[j]], labels)>>
               ELSE <<>>])

\* lines 321-336: under a remaining parent, every child found in the list
AllChildRows(all_issues, children, states, labels) ==
    Concat([j \in 1..Len(children) |->
               IF Found(all_issues, children[j])
               THEN <<PlanningRow(TRUE, children[j], states[children[j]], labels)>>
               ELSE <<>>])

\* lines 268-300: the rows of the open parents with closed children
InProgressRows(to_add, all_issues, h, states, labels) ==
    Concat([j \in 1..Len(to_add) |->
               IF to_add[j] \in h.child THEN <<>>
               ELSE <<PlanningRow(FALSE, to_add[j], "in progress", labels)>>
                    \o (IF to_add[j] \in DictKeys(h.p2c)
                        THEN ClosedChildRows(all_issues, DictGet(h.p2c, to_add[j]),
                                             states, labels)
                        ELSE <<>>)])

\* lines 303-336: the rows of the remaining parents
RemainingParentRows(parent_issues, to_add, all_issues, h, states, labels) ==
    Concat([j \in 1..Len(parent_issues) |->
               IF parent_issues[j] \in SeqToSet(to_add) THEN <<>>
               ELSE <<PlanningRow(FALSE, parent_issues[j], states[parent_issues[j]],
                                  labels)>>
                    \o (IF parent_issues[j] \in DictKeys(h.p2c)
                        THEN AllChildRows(all_issues, DictGet(h.p2c, parent_issues[j]),
                                          states, labels)
                        ELSE <<>>)])

\* lines 347-358: the rows of the "Other Issues" table
StandaloneRows(standalone, states, labels) ==
    [j \in 1..Len(standalone) |-> PlanningRow(FALSE, standalone[j],
                                              states[standalone[j]], labels)]

PlanningHead == <<"Issue", "Type", "Priority / Bug Severity", "Status", "On Deck">>

\* ParentSection with the loop of lines 303-336 run before that of lines 268-300
ParentSectionRemainingFirst(all_issues, h, states, labels) ==
    LET to_add == ParentIssuesToAdd(h.p2c, all_issues, states)
        parent_issues == ParentIssues(all_issues, h)
    IN IF parent_issues # <<>> \/ to_add # <<>>
       THEN <<MdHeader(3, "Parent Issues"), MdLine(""),
              MdTable(5, PlanningHead,
                      RemainingParentRows(parent_issues, to_add, all_issues, h,
                                          states, labels)
                        \o InProgressRows(to_add, all_issues, h, states, labels))>>
       ELSE <<>>

\* lines 262-339: the "Parent Issues" section
ParentSection(all_issues, h, states, labels) ==
    LET to_add == ParentIssuesToAdd(h.p2c, all_issues, states)
        parent_issues == ParentIssues(all_issues, h)
    IN IF parent_issues # <<>> \/ to_add # <<>>
       THEN <<MdHeader(3, "Parent Issues"), MdLine(""),
              MdTable(5, PlanningHead,
                      InProgressRows(to_add, all_issues, h, states, labels)
                        \o RemainingParentRows(parent_issues, to_add, all_issues, h,
                                               states, labels))>>
       ELSE <<>>

\* lines 342-361: the "Other Issues" section
OtherSection(all_issues, h, states, labels) ==
    LET standalone == StandaloneIssues(all_issues, h)
    IN IF standalone # <<>>
       THEN <<MdHeader(3, "Other Issues"), MdLine(""),
              MdTable(5, PlanningHead, StandaloneRows(standalone, states, labels))>>
       ELSE <<>>

\* convert_issues_to_planning_report: [md, h, raised] as for the known-bugs report
convert_issues_to_planning_report(repo_name, issues_map, states, labels, sub_answers, gh, show, org) ==
    LET all_issues == AllIssues(issues_map) IN
    IF Len(all_issues) = 0
    THEN [md |-> <<>>, h |-> EmptyAcc, raised |-> FALSE]
    ELSE LET intro == <<MdHeader(2, repo_name)>>
             h == ReportHierarchy(all_issues, sub_answers, show, gh, org)
         IN IF h.raised THEN [md |-> intro, h |-> h, raised |-> TRUE]
            ELSE [md |-> intro \o ParentSection(all_issues, h, states, labels)
                               \o OtherSection(all_issues, h, states, labels),
                  h |-> h, raised |-> FALSE]

(***************************************************************************)
(* create_md_issue_report: the metrics of the summary table.  An issues    *)
(* map is an ordered dict type -> list of issues; metrics are records      *)
(* [total, by_type] with by_type an ordered dict type -> count.            *)
(***************************************************************************)
\* lines 420-423: by_type[issue_type] = len(issues), for every type of the map
ByType(issues_map) ==
    [j \in 1..Len(issues_map) |-> [k |-> issues_map[j].k, v |-> Len(issues_map[j].v)]]

\* lines 417-423: total_count, the counts added up in the order of the map
RECURSIVE TotalCount(_)
TotalCount(by_type) ==
    IF by_type = <<>> THEN 0 ELSE Head(by_type).v + TotalCount(Tail(by_type))

\* line 425: metrics_by_repo[repo_name] = {"total": ..., "by_type": ...}
RepoMetrics(issues_map) ==
    [total |-> TotalCount(ByType(issues_map)), by_type |-> ByType(issues_map)]

\* lines 428-431: the component of a repository; repo_to_product is an ordered
\* dict repository -> product name
ComponentOf(repo_name, group, r2p) ==
    IF group /\ r2p # <<>> /\ repo_name \in DictKeys(r2p)
    THEN DictGet(r2p, repo_name)
    ELSE "Other"

\* by_type.get(issue_type, 0)
ByTypeGet(by_type, issue_type) ==
    IF issue_type \in DictKeys(by_type) THEN DictGet(by_type, issue_type) ELSE 0

\* lines 438-441: the counts of a repository added to those of its component
RECURSIVE AddByType(_, _)
AddByType(comp_by_type, by_type) ==
    IF by_type = <<>> THEN comp_by_type
    ELSE AddByType(DictSet(comp_by_type, Head(by_type).k,
                           ByTypeGet(comp_by_type, Head(by_type).k) + Head(by_type).v),
                   Tail(by_type))

\* the entry of a component, as line 434 creates it when missing
ComponentEntry(mbc, component_name) ==
    IF component_name \in DictKeys(mbc) THEN DictGet(mbc, component_name)
    ELSE [total |-> 0, by_type |-> <<>>]

\* AddToComponent with line 436 assigning (=) where the code adds (+=)
AddToComponentAssign(mbc, component_name, m) ==
    LET base == ComponentEntry(mbc, component_name)
    IN DictSet(mbc, component_name,
               [total |-> m.total, by_type |-> AddByType(base.by_type, m.by_type)])

\* lines 433-441: the metrics m of a repository rolled up into its component
AddToComponent(mbc, component_name, m) ==
    LET base == ComponentEntry(mbc, component_name)
    IN DictSet(mbc, component_name,
               [total |-> base.total + m.total,
                by_type |-> AddByType(base.by_type, m.by_type)])

\* the cells of the summary table: str(n) and f"**{n}**"
Str(n) == [text |-> "plain", n |-> n]
Bold(n) == [text |-> "bold", n |-> n]

\* the names the model uses, each list in the order sorted() gives
SortedRepoNames == <<"a-repo", "b-repo", "c-repo">>
SortedComponentNames == <<"Other", "comp-a", "comp-b">>

\* sorted(metrics.keys())
SortedKeys(metrics, order) == SelectSeq(order, LAMBDA n : n \in DictKeys(metrics))

\* lines 523-540 / 569-586: the row of one component or repository
SummaryRow(name, m) ==
    <<name, Str(ByTypeGet(m.by_type, "bug")), Str(ByTypeGet(m.by_type, "enhancement")),
      Str(ByTypeGet(m.by_type, "requirement")), Str(ByTypeGet(m.by_type, "task")),
      Str(ByTypeGet(m.by_type, "theme")), Str(m.total)>>

\* grand_total += total, over the sorted names
RECURSIVE GrandTotal(_, _)
GrandTotal(metrics, names) ==
    IF names = <<>> THEN 0
    ELSE DictGet(metrics, Head(names)).total + GrandTotal(metrics, Tail(names))

\* sum(m["by_type"].get(t, 0) for m in metrics.values())
RECURSIVE TypeTotal(_, _)
TypeTotal(metrics, issue_type) ==
    IF metrics = <<>> THEN 0
    ELSE ByTypeGet(Head(metrics).v.by_type, issue_type)
           + TypeTotal(Tail(metrics), issue_type)

\* lines 543-557 / 589-603: the **TOTAL** row
TotalRow(metrics, grand_total) ==
    <<"**TOTAL**", Bold(TypeTotal(metrics, "bug")), Bold(TypeTotal(metrics, "enhancement")),
      Bold(TypeTotal(metrics, "requirement")), Bold(TypeTotal(metrics, "task")),
      Bold(TypeTotal(metrics, "theme")), Bold(grand_total)>>

\* lines 517-560 / 563-606: the summary table over `metrics`, its first column
\* titled first_col
SummaryTable(metrics, order, first_col) ==
    LET names == SortedKeys(metrics, order)
        grand_total == GrandTotal(metrics, names)
    IN MdTable(7,
               <<first_col, "Bug", "Enhancement", "Requirement", "Task", "Theme", "Total">>,
               [j \in 1..Len(names) |-> SummaryRow(names[j], DictGet(metrics, names[j]))]
                 \o <<TotalRow(metrics, grand_total)>>)

\* line 514: `if group_by_component and metrics_by_component:`
ComponentTable(group, mbc) == group /\ mbc # <<>>

(***************************************************************************)
(* build_repo_to_product_map (issues.py and utils.py hold the same code).  *)
(* A configuration is None, or a dict: with or without the key "products", *)
(* whose value is None (products_null) or an ordered dict product name ->  *)
(* product info.  A product info is None (body FALSE) or a dict with the   *)
(* value of "ignore" and, under "repositories", a list of names, None      *)
(* (repos "null") or nothing (repos "absent").                             *)
(***************************************************************************)
ConfigNone == [t |-> "none", has_products |-> FALSE, products_null |-> FALSE, products |-> <<>>]
ConfigNoProducts == [t |-> "dict", has_products |-> FALSE, products_null |-> FALSE, products |-> <<>>]
ConfigNullProducts == [t |-> "dict", has_products |-> TRUE, products_null |-> TRUE, products |-> <<>>]
ConfigOf(products) == [t |-> "dict", has_products |-> TRUE, products_null |-> FALSE, products |-> products]

InfoNone == [body |-> FALSE, ignore |-> FALSE, repos |-> "absent", repositories |-> <<>>]
InfoOf(ignore, repos, repositories) == [body |-> TRUE, ignore |-> ignore, repos |-> repos, repositories |-> repositories]

\* lines 65-66: for repo in product_info.get("repositories", []): repo_map[repo] = ...
RECURSIVE AddRepositories(_, _, _, _)
AddRepositories(repo_map, repositories, product_name, product_info) ==
    IF repositories = <<>> THEN repo_map
    ELSE AddRepositories(DictSet(repo_map, Head(repositories),
                                 [name |-> product_name, info |-> product_info]),
                         Tail(repositories), product_name, product_info)

\* lines 62-66: the loop over the products; [map, raised]
RECURSIVE AddProducts(_, _)
AddProducts(acc, products) ==
    IF products = <<>> \/ acc.raised THEN acc
    ELSE LET product_name == Head(products).k
             product_info == Head(products).v
         IN IF ~product_info.body THEN [acc EXCEPT !.raised = TRUE]
            ELSE IF product_info.ignore THEN AddProducts(acc, Tail(products))
            ELSE IF product_info.repos = "null" THEN [acc EXCEPT !.raised = TRUE]
            ELSE AddProducts([acc EXCEPT !.map = AddRepositories(@, product_info.repositories,
                                                                 product_name, product_info)],
                             Tail(products))

\* build_repo_to_product_map: [map: the dict returned, raised: an exception left
\* the function]
build_repo_to_product_map(products_config) ==
    IF products_config.t = "none" \/ ~products_config.has_products
    THEN [map |-> <<>>, raised |-> FALSE]
    ELSE IF products_config.products_null THEN [map |-> <<>>, raised |-> TRUE]
    ELSE AddProducts([map |-> <<>>, raised |-> FALSE], products_config.products)

(***************************************************************************)
(* create_release_themes.py: the helpers of create_release_theme, each a   *)
(* function of the answers `gh` gives to the commands it runs.             *)
(***************************************************************************)
\* Python's `s in t` for two strings
IsSubstring(s, t) ==
    \E i \in 0..(Len(t) - Len(s)) : SubSeq(t, i + 1, i + Len(s)) = s

\* what run_gh_command returns: the CompletedProcess of the command
GhResult(returncode, stdout) == [returncode |-> returncode, stdout |-> stdout]

\* one command handed to run_gh_command: its leading words and the name it is about
GhCommand(cmd, arg) == [cmd |-> cmd, arg |-> arg]

\* the cells of the date columns: "YYYY-MM-DD" text (with or without the leading
\* zeros), any other text, and the float nan pandas gives for an empty cell
DateYmd(y, m, d, padded) == [t |-> "ymd", y |-> y, m |-> m, d |-> d, padded |-> padded]
DateText == [t |-> "text", y |-> 0, m |-> 0, d |-> 0, padded |-> FALSE]
DateNaN == [t |-> "nan", y |-> 0, m |-> 0, d |-> 0, padded |-> FALSE]

\* the cells of the "GitHub Project Product" column, as row.get hands them over
\* (line 461): text, the float nan pandas gives for an empty cell, and "", the
\* default of row.get when the row has no such column
ProductText(s) == [t |-> "str", v |-> s]
ProductNaN == [t |-> "nan", v |-> ""]

IsLeap(y) == (y % 4 = 0 /\ y % 100 # 0) \/ y % 400 = 0

DaysInMonth(y, m) ==
    IF m = 2 THEN (IF IsLeap(y) THEN 29 ELSE 28)
    ELSE IF m \in {4, 6, 9, 11} THEN 30 ELSE 31

\* parse_date: strptime with "%Y-%m-%d", then strftime with the same format;
\* raised is "" when the function returns
parse_date(date_str) ==
    IF date_str.t = "nan" THEN [raised |-> "TypeError", value |-> date_str]
    ELSE IF /\ date_str.t = "ymd"
            /\ date_str.m \in 1..12
            /\ date_str.d \in 1..DaysInMonth(date_str.y, date_str.m)
         THEN [raised |-> "", value |-> DateYmd(date_str.y, date_str.m, date_str.d, TRUE)]
         ELSE [raised |-> "ValueError", value |-> date_str]

\* what json.loads makes of the output of `gh issue list --json title`
IssuesText == [t |-> "text", items |-> <<>>]
IssuesNull == [t |-> "null", items |-> <<>>]
IssuesList(items) == [t |-> "list", items |-> items]
IssueItem(title) == [t |-> "obj", has_title |-> TRUE, title |-> title]
IssueItemNoTitle == [t |-> "obj", has_title |-> FALSE, title |-> ""]
IssueItemString == [t |-> "str", has_title |-> FALSE, title |-> ""]

\* ScanIssues with `title in issue.get("title")` for the test of line 153
RECURSIVE ScanIssuesContaining(_, _)
ScanIssuesContaining(items, title) ==
    IF items = <<>> THEN [result |-> FALSE, raised |-> ""]
    ELSE IF Head(items).t # "obj" THEN [result |-> FALSE, raised |-> "AttributeError"]
    ELSE IF Head(items).has_title /\ IsSubstring(title, Head(items).title)
         THEN [result |-> TRUE, raised |-> ""]
         ELSE ScanIssuesContaining(Tail(items), title)

\* lines 152-156: the loop over the listed issues
RECURSIVE ScanIssues(_, _)
ScanIssues(items, title) ==
    IF items = <<>> THEN [result |-> FALSE, raised |-> ""]
    ELSE IF Head(items).t # "obj" THEN [result |-> FALSE, raised |-> "AttributeError"]
    ELSE IF Head(items).has_title /\ Head(items).title = title
         THEN [result |-> TRUE, raised |-> ""]
         ELSE ScanIssues(Tail(items), title)

\* check_issue_exists without the except clause of lines 157-159
check_issue_exists_no_except(list_result, title) ==
    IF list_result.returncode # 0 THEN [result |-> FALSE, raised |-> ""]
    ELSE IF list_result.stdout.t = "text" THEN [result |-> FALSE, raised |-> "JSONDecodeError"]
    ELSE IF list_result.stdout.t = "null" THEN [result |-> FALSE, raised |-> "TypeError"]
    ELSE ScanIssues(list_result.stdout.items, title)

\* check_issue_exists, given the answer to its list command
check_issue_exists(list_result, title) ==
    IF list_result.returncode # 0 THEN [result |-> FALSE, raised |-> ""]
    ELSE IF list_result.stdout.t = "text" THEN [result |-> FALSE, raised |-> ""]
    ELSE IF list_result.stdout.t = "null" THEN [result |-> FALSE, raised |-> "TypeError"]
    ELSE ScanIssues(list_result.stdout.items, title)

\* ensure_label_exists with the dry_run test of line 116 left out
ensure_label_exists_always_creates(list_result, create_result, repo, label_name, dry_run) ==
    IF list_result.returncode = 0 /\ IsSubstring(label_name, list_result.stdout)
    THEN [cmds |-> <<GhCommand("label list", repo)>>, result |-> TRUE]
    ELSE [cmds |-> <<GhCommand("label list", repo), GhCommand("label create", label_name)>>,
          result |-> (create_result.returncode = 0)]

\* ensure_label_exists, given the answers to its list and create commands: the
\* commands it runs and what it returns
ensure_label_exists(list_result, create_result, repo, label_name, dry_run) ==
    IF list_result.returncode = 0 /\ IsSubstring(label_name, list_result.stdout)
    THEN [cmds |-> <<GhCommand("label list", repo)>>, result |-> TRUE]
    ELSE IF ~dry_run
         THEN [cmds |-> <<GhCommand("label list", repo), GhCommand("label create", label_name)>>,
               result |-> (create_result.returncode = 0)]
         ELSE [cmds |-> <<GhCommand("label list", repo)>>, result |-> TRUE]

\* what json.loads makes of the output of `gh project list --format json`
ProjectsText == [t |-> "text", projects |-> <<>>]
ProjectsObj(projects) == [t |-> "obj", projects |-> projects]
Project(title, number, id) == [title |-> title, number |-> number, id |-> id]

\* find_project_id: (project_number, project_node_id) of the first project with
\* the title; "" stands for None, a project number of "missing" for an entry
\* without "number" (KeyError, caught)
NoProject == [project_number |-> "", project_node_id |-> ""]

RECURSIVE ScanProjects(_, _)
ScanProjects(projects, project_name) ==
    IF projects = <<>> THEN NoProject
    ELSE IF Head(projects).title = project_name
         THEN IF Head(projects).number = "missing" THEN NoProject
              ELSE [project_number |-> Head(projects).number,
                    project_node_id |-> Head(projects).id]
         ELSE ScanProjects(Tail(projects), project_name)

find_project_id(list_result, project_name) ==
    IF list_result.returncode # 0 \/ list_result.stdout.t = "text" THEN NoProject
    ELSE ScanProjects(list_result.stdout.projects, project_name)

\* what json.loads makes of the answer to the project-items query: the node ids
\* of the projects the issue is an item of, with the ids of the items
ItemsText == [t |-> "text", nodes |-> <<>>]
ItemsObj(nodes) == [t |-> "obj", nodes |-> nodes]
ItemNode(id, project_id) == [id |-> id, project_id |-> project_id]

RECURSIVE ScanItems(_, _)
ScanItems(nodes, project_node_id) ==
    IF nodes = <<>> THEN ""
    ELSE IF Head(nodes).project_id = project_node_id THEN Head(nodes).id
         ELSE ScanItems(Tail(nodes), project_node_id)

\* get_project_item_id: the id of the item, "" for None
get_project_item_id(query_result, project_node_id) ==
    IF query_result.returncode # 0 \/ query_result.stdout.t = "text" THEN ""
    ELSE ScanItems(query_result.stdout.nodes, project_node_id)

\* what json.loads makes of the answer to the fields query: the names of the
\* fields of the project
FieldsText == [t |-> "text", names |-> {}]
FieldsObj(names) == [t |-> "obj", names |-> names]

\* set_project_field, given the answers to its fields query and to its mutation
set_project_field(query_result, mutation_result, field_name) ==
    IF query_result.returncode # 0 \/ query_result.stdout.t = "text"
    THEN [cmds |-> <<GhCommand("api graphql query fields", field_name)>>, result |-> FALSE]
    ELSE IF field_name \notin query_result.stdout.names
    THEN [cmds |-> <<GhCommand("api graphql query fields", field_name)>>, result |-> FALSE]
    ELSE [cmds |-> <<GhCommand("api graphql query fields", field_name),
                     GhCommand("api graphql mutation", field_name)>>,
          result |-> (mutation_result.returncode = 0)]

\* what create_release_theme returns: a string, or None
ReturnNone == [none |-> TRUE, value |-> ""]
ReturnStr(s) == [none |-> FALSE, value |-> s]

\* lines 464-465: the build label and the full title
BuildLabel(build_number) == "B" \o ToString(build_number)
FullTitle(build_number, base_title) == BuildLabel(build_number) \o " " \o base_title

\* line 501: the URL a dry run returns
DryRunUrl(repo) == "https://github.com/" \o repo \o "/issues/DRY-RUN"

\* the commands that change the repository or a project
StateChanging(c) ==
    c.cmd \in {"label create", "issue create", "project item-add", "api graphql mutation"}

(***************************************************************************)
(* State.                                                                  *)
(***************************************************************************)
VARIABLES
    \* build_parent_child_map, one call, iteration by iteration
    issues_list,          \* the numbers of the issues of issues_list, in order
    fetch_parents,        \* the fetch_parents argument
    pc,                   \* "first_pass", "second_pass", "done", "raised" ("idle": no call)
    idx,                  \* position of the running loop in issues_list
    parent_to_children,   \* ordered dict: number -> sequence of child numbers
    child_issues,         \* set of child numbers
    fetched_parents,      \* ordered dict: number -> parent data
    forward_map,          \* parent_to_children as the first pass left it
    fetched_nothing,      \* every fetch so far answered [] (sub-issues) or None (parent)
    fetch_log,            \* the fetches made so far: their kind and the issue number
    \* the reports of create_md_issue_report over one repository
    issues_map,           \* ordered dict: issue type -> the numbers of its issues
    issue_state,          \* number -> "open" or "closed"
    issue_labels,         \* number -> the names of the labels of the issue
    sub_answers,          \* number -> the response of the sub-issue fetch for it
    show_parent_child,    \* the show_parent_child argument
    output_report,        \* the output_report argument: "planning" or "known_bugs"
    token,                \* the token argument (or GITHUB_TOKEN), "" without one
    GithubConnection_gh,  \* the class attribute GithubConnection.gh
    report_pc,            \* outcome of the last run: "none", "returned", "raised", "exit"
    runs,                 \* how many report runs the process has made
    md_file,              \* the calls of the last run on its MdUtils file
    first_md,             \* the calls of the first run on its MdUtils file
    report_entry,         \* what is called: create_md_issue_report or a report function
    hierarchy,            \* what build_parent_child_map handed to the last run
    \* the metrics of create_md_issue_report over the repositories of one run
    all_repos_issues,     \* ordered dict: repository -> its issues map
    repo_to_product,      \* ordered dict: repository -> product name
    group_by_component,   \* the group_by_component argument
    metrics_by_repo,      \* ordered dict: repository -> [total, by_type]
    metrics_by_component, \* ordered dict: component -> [total, by_type]
    metrics_pc,           \* "loop", "done" ("idle": no metrics run)
    repo_idx,             \* position of the metrics loop in all_repos_issues
    summary_table,        \* the summary table written, <<>> before it is
    \* one call of build_parent_child_map against a tracker whose answers are fixed
    call_issues,          \* the numbers of the issues of issues_list, each once
    call_sub_answers,     \* number -> the response of the sub-issue fetch for it
    call_parent_answers,  \* number -> the response of the parent fetch for it
    call_fetch_parents,   \* the fetch_parents argument
    call_pc,              \* "entered", "forward_done", "returned" ("idle": no call)
    call_forward,         \* the accumulators as the first pass left them
    call_result,          \* the accumulators the call returns
    \* one call of build_repo_to_product_map
    products_config,      \* the configuration handed to the call
    repo_map,             \* the dict the call returned
    products_pc,          \* "entered", "returned", "raised" ("idle": no call)
    \* create_release_theme over one row of the schedule
    theme_row,            \* the row: Title, Repo, the two dates, the product
    build_number,         \* the build_number argument
    dry_run,              \* the dry_run argument
    theme_pc,             \* the step the call is at, "returned", "raised" ("idle": no call)
    theme_calls,          \* how many calls the row has had
    created_titles,       \* the titles of the issues `gh issue create` has created
    gh_log,               \* the commands the call has handed to run_gh_command
    helper_calls,         \* the helper functions the call has called
    theme_result,         \* what the call returned
    theme_exists,         \* what check_issue_exists said: "not called", "True", "False", "raised"
    issue_list_result,    \* what `gh issue list` answered to check_issue_exists
    issue_create_result,  \* what `gh issue create` answered, if it was run
    item_add_result,      \* what `gh project item-add` answered, if it was run
    start_date_iso,       \* the local start_date_iso
    end_date_iso,         \* the local end_date_iso
    issue_url,            \* the local issue_url, "" before the issue is created
    project_ids,          \* the locals project_number and project_node_id
    item_id,              \* the local item_id
    \* one call of a helper of create_release_themes.py by itself
    fn,                   \* "ensure_label_exists" or "check_issue_exists" ("idle": no call)
    fn_name,              \* the label_name or the title argument
    fn_dry_run,           \* the dry_run argument
    fn_labels,            \* the labels of the repository
    fn_list_result,       \* what the list command of the helper answers
    fn_create_result,     \* what `gh label create` answers if it is run
    fn_pc,                \* "entered", "returned", "raised"
    fn_cmds,              \* the commands the call handed to run_gh_command
    fn_return,            \* what the call returned
    \* main of create_release_themes.py: the loop over the rows of the CSV file
    csv_rows,             \* the rows read from the CSV file
    main_pc,              \* "loop", "exited", "aborted" ("idle": no run)
    row_idx,              \* how many rows of the filtered frame the loop has taken
    created_issues,       \* the list created_issues: (full title, URL) pairs
    skipped_issues,       \* the list skipped_issues: full titles
    failed_issues,        \* the list failed_issues: full titles
    exit_status,          \* the status handed to sys.exit, -1 before the exit
    outcomes,             \* how the call for each row taken so far ended
    \* add_version_label_to_open_bugs.py
    label_name,           \* the label to add
    label_pc,             \* "main", "entered", "returned", "raised", "exit" ("idle": no run)
    \* a process that makes the same report call twice: the locals of the call
    call_token,           \* the token argument of the call, "" without one
    report_gh,            \* the local gh
    report_issues,        \* the local bugs_list (known bugs) or all_issues (planning)
    parent_issues_to_add, \* the keys of the local parent_issues_to_add, in order
    report_parent_issues, \* the local parent_issues
    standalone_issues,    \* the local standalone_issues
    run_calls,            \* the calls the call under way has made on its MdUtils file
    first_end             \* how the first call ended: "returned" or "raised"

resolveVars == <<issues_list, fetch_parents, pc, idx, parent_to_children,
                 child_issues, fetched_parents, forward_map, fetched_nothing,
                 fetch_log>>

reportVars == <<issues_map, issue_state, issue_labels, sub_answers, show_parent_child,
                output_report, token, GithubConnection_gh, report_pc, runs, md_file, first_md,
                hierarchy, report_entry>>

metricsVars == <<all_repos_issues, repo_to_product, group_by_component, metrics_by_repo,
                 metrics_by_component, metrics_pc, repo_idx, summary_table>>

callVars == <<call_issues, call_sub_answers, call_parent_answers, call_fetch_parents,
              call_pc, call_forward, call_result>>

productsVars == <<products_config, repo_map, products_pc>>

themeVars == <<theme_row, build_number, dry_run, theme_pc, theme_calls, created_titles,
               gh_log, helper_calls, theme_result, theme_exists, issue_list_result,
               issue_create_result, item_add_result,
               start_date_iso, end_date_iso, issue_url, project_ids, item_id>>

fnVars == <<fn, fn_name, fn_dry_run, fn_labels, fn_list_result, fn_create_result, fn_pc,
            fn_cmds, fn_return>>

mainVars == <<csv_rows, main_pc, row_idx, created_issues, skipped_issues, failed_issues,
              exit_status, outcomes>>

labelVars == <<label_name, label_pc>>

procVars == <<call_token, report_gh, report_issues, parent_issues_to_add,
              report_parent_issues, standalone_issues, run_calls, first_end>>

vars == <<resolveVars, reportVars, metricsVars, callVars, productsVars, themeVars,
         fnVars, mainVars, labelVars, procVars>>

(***************************************************************************)
(* What the tracker can answer in the model.                               *)
(***************************************************************************)
\* the entries of a sub-issue payload: sub-issues inside and outside the list,
\* and an entry without "number"
SubItems ==
    {JObj(JInt(n)) : n \in ResolveNums \cup ExternalNums} \cup {JObjNoNumber}

\* payloads of another shape: an entry that is no dict, an entry whose "number"
\* is a list, a body that is no list
OddBodies ==
    {JList(<<JInt(7)>>), JList(<<JObj(JList(<<JInt(1)>>))>>),
     JNull, JObjNoNumber, JObjEmpty, JInt(1)}

SubBodies == {JList(s) : s \in SeqsUpTo(SubItems, MaxSubs)} \cup OddBodies

SubResponses ==
    {RespException, RespStatus(404), RespStatus(500), RespBadJson}
        \cup {RespJson(b) : b \in SubBodies}

ParentBodies ==
    {JObj(JInt(n)) : n \in ResolveNums \cup ExternalNums}
        \cup {JNull, JObjNoNumber, JObjEmpty, JList(<<JObj(JInt(9))>>),
              JObj(JList(<<JInt(1)>>))}

ParentResponses ==
    {RespException, RespStatus(404), RespStatus(500), RespBadJson}
        \cup {RespJson(b) : b \in ParentBodies}

(***************************************************************************)
(* build_parent_child_map as a state machine.                              *)
(***************************************************************************)
\* lines 94 and 114: one call of get_sub_issues ("sub") or get_parent_issue ("parent")
Fetch(kind, number) == [kind |-> kind, number |-> number]

CurrentAcc ==
    [p2c |-> parent_to_children, child |-> child_issues,
     fetched |-> fetched_parents, raised |-> FALSE]

\* lines 85-90: the call has just been entered
ResolveInit ==
    /\ issues_list \in SeqsUpTo(ResolveNums, MaxIssues)
    /\ fetch_parents \in BOOLEAN
    /\ pc = "first_pass"
    /\ idx = 1
    /\ parent_to_children = EmptyAcc.p2c
    /\ child_issues = EmptyAcc.child
    /\ fetched_parents = EmptyAcc.fetched
    /\ forward_map = <<>>
    /\ fetched_nothing = TRUE
    /\ fetch_log = <<>>

\* lines 93-104: one iteration of `for issue in issues_list` of the first pass
FirstPassStep ==
    /\ pc = "first_pass"
    /\ idx <= Len(issues_list)
    /\ \E resp \in SubResponses :
          LET acc == SubIssuesIteration(CurrentAcc, IssueMapKeys(issues_list),
                                        issues_list[idx], resp)
          IN /\ parent_to_children' = acc.p2c
             /\ child_issues' = acc.child
             /\ pc' = IF acc.raised THEN "raised" ELSE pc
             /\ idx' = IF acc.raised THEN idx ELSE idx + 1
             /\ fetched_nothing' =
                    (fetched_nothing /\ get_sub_issues(resp) = JList(<<>>))
    /\ fetch_log' = Append(fetch_log, Fetch("sub", issues_list[idx]))
    /\ UNCHANGED <<issues_list, fetch_parents, fetched_parents, forward_map>>
    /\ UNCHANGED <<reportVars, metricsVars, callVars, productsVars, themeVars, fnVars,
                   mainVars, labelVars, procVars>>

\* lines 106-107: the first loop is over; `if fetch_parents:`
FirstPassEnd ==
    /\ pc = "first_pass"
    /\ idx > Len(issues_list)
    /\ forward_map' = parent_to_children
    /\ pc' = IF fetch_parents THEN "second_pass" ELSE "done"
    /\ idx' = 1
    /\ UNCHANGED <<issues_list, fetch_parents, parent_to_children, child_issues,
                   fetched_parents, fetched_nothing, fetch_log>>
    /\ UNCHANGED <<reportVars, metricsVars, callVars, productsVars, themeVars, fnVars,
                   mainVars, labelVars, procVars>>

\* lines 108-125: one iteration of `for issue in issues_list` of the second pass
SecondPassStep ==
    /\ pc = "second_pass"
    /\ idx <= Len(issues_list)
    /\ \E resp \in ParentResponses :
          LET acc == ParentIteration(CurrentAcc, IssueMapKeys(issues_list),
                                     issues_list[idx], resp)
          IN /\ parent_to_children' = acc.p2c
             /\ child_issues' = acc.child
             /\ fetched_parents' = acc.fetched
             /\ pc' = IF acc.raised THEN "raised" ELSE pc
             /\ idx' = IF acc.raised THEN idx ELSE idx + 1
             /\ fetched_nothing' =
                    (fetched_nothing
                       /\ (SkipKnownParent(parent_to_children, issues_list[idx])
                             \/ get_parent_issue(resp) = JNull))
    /\ fetch_log' = IF SkipKnownParent(parent_to_children, issues_list[idx]) THEN fetch_log
                    ELSE Append(fetch_log, Fetch("parent", issues_list[idx]))
    /\ UNCHANGED <<issues_list, fetch_parents, forward_map>>
    /\ UNCHANGED <<reportVars, metricsVars, callVars, productsVars, themeVars, fnVars,
                   mainVars, labelVars, procVars>>

\* line 127: the second loop is over; return
SecondPassEnd ==
    /\ pc = "second_pass"
    /\ idx > Len(issues_list)
    /\ pc' = "done"
    /\ UNCHANGED <<issues_list, fetch_parents, idx, parent_to_children, child_issues,
                   fetched_parents, forward_map, fetched_nothing, fetch_log>>
    /\ UNCHANGED <<reportVars, metricsVars, callVars, productsVars, themeVars, fnVars,
                   mainVars, labelVars, procVars>>

ResolveNext == FirstPassStep \/ FirstPassEnd \/ SecondPassStep \/ SecondPassEnd

\* no call of build_parent_child_map is under way
ResolveIdle ==
    /\ issues_list = <<>>
    /\ fetch_parents = FALSE
    /\ pc = "idle"
    /\ idx = 1
    /\ parent_to_children = <<>>
    /\ child_issues = {}
    /\ fetched_parents = <<>>
    /\ forward_map = <<>>
    /\ fetched_nothing = TRUE
    /\ fetch_log = <<>>

(***************************************************************************)
(* The reports as a state machine: a process that runs the report of one   *)
(* repository, and runs it again on the same data.                         *)
(***************************************************************************)
REPO_NAME == "repo"
DEFAULT_GITHUB_ORG == "NASA-PDS"

\* every sequence without repetition over S, of length at most n
DistinctSeqsUpTo(S, n) ==
    {q \in SeqsUpTo(S, n) : \A a, b \in 1..Len(q) : a # b => q[a] # q[b]}

\* the map get_org_issues_groupby_type_and_repo builds (utils.py line 205): a key
\* per issue type, in the order of ISSUE_TYPES; here with bugs and tasks
MapOf(bugs, tasks) ==
    [j \in 1..Len(ISSUE_TYPES) |->
        [k |-> ISSUE_TYPES[j],
         v |-> IF ISSUE_TYPES[j] = "bug" THEN bugs
               ELSE IF ISSUE_TYPES[j] = "task" THEN tasks ELSE <<>>]]

\* a map without the key "bug"
MapWithoutBugs(tasks) == <<[k |-> "task", v |-> tasks]>>

\* the maps the search builds for a repository: the key of a repository comes with
\* its first issue (utils.py lines 204-208), so that some list is not empty; an
\* issue that carries two type labels is found by the search of each and is in
\* both lists (lines 167 and 208)
IssueMaps ==
    LET L == DistinctSeqsUpTo(IssueNums, MaxIssues) IN
    {MapOf(x[1], x[2]) :
        x \in {y \in L \X L : /\ Len(y[1]) + Len(y[2]) <= MaxIssues
                               /\ Len(y[1]) + Len(y[2]) >= 1}}

\* the search found no issue: all_repos_issues is {}, without any repository
NoRepository == <<>>

\* all_repos_issues (utils.py lines 130 and 204-208), from the map of the one
\* repository of the tracker
SearchResult(map) ==
    IF map = NoRepository THEN <<>> ELSE <<[k |-> REPO_NAME, v |-> map]>>

\* maps the search never builds, which a direct caller of a report function can
\* hand in: no key "bug", or every list empty
DirectMaps ==
    {MapWithoutBugs(t) : t \in DistinctSeqsUpTo(IssueNums, MaxIssues)}
        \cup {MapOf(<<>>, <<>>)}

\* the priority labels of the issues: two assignments
PriorityWorlds ==
    {<<<<"s.critical">>, <<"p.should-have">>, <<>>>>,
     <<<<"needs.triage", "p.must-have">>, <<"s.high", "s.low">>, <<"s.low">>>>}

\* an issue found by the search for label:<type> carries that label
TypeLabels(map, n) ==
    SelectSeq(ISSUE_TYPES,
              LAMBDA ty : ty \in DictKeys(map) /\ n \in SeqToSet(DictGet(map, ty)))

\* the tracker's sub-issue answers, from a sequence of <<parent, child>> links:
\* every issue answers 200 with the list of its children, in the order of the links
RECURSIVE ChildrenOf(_, _)
ChildrenOf(links, n) ==
    IF links = <<>> THEN <<>>
    ELSE (IF Head(links)[1] = n THEN <<JObj(JInt(Head(links)[2]))>> ELSE <<>>)
         \o ChildrenOf(Tail(links), n)

AnswersOf(links) == [n \in IssueNums |-> RespJson(JList(ChildrenOf(links, n)))]

\* the links of a tracker: an issue is no sub-issue of itself
Links == {l \in IssueNums \X IssueNums : l[1] # l[2]}

\* a parent g whose child p is itself the parent of another child c of g
GrandparentLinks ==
    {<<<<x[1], x[2]>>, <<x[1], x[3]>>, <<x[2], x[3]>>>> :
        x \in {y \in IssueNums \X IssueNums \X IssueNums :
                  y[1] # y[2] /\ y[1] # y[3] /\ y[2] # y[3]}}

\* the tracker lists a sub-issue of an issue once
AnswerWorlds ==
    {AnswersOf(l) : l \in DistinctSeqsUpTo(Links, MaxLinks) \cup GrandparentLinks}

\* the issues a report reads: the bugs for the known-bugs report, every issue of
\* the map for the planning report
IssuesRead(report, map) ==
    IF report = "known_bugs" THEN SeqToSet(BugsList(map)) ELSE SeqToSet(AllIssues(map))

ReportInit ==
    /\ report_entry \in {"create_md_issue_report", "report_function"}
    /\ output_report \in {"planning", "known_bugs"}
    /\ show_parent_child \in BOOLEAN
    /\ issues_map \in IF report_entry = "create_md_issue_report"
                      THEN IssueMaps \cup {NoRepository} ELSE DirectMaps
    /\ issue_state \in [IssueNums -> {"open", "closed"}]
    \* the state of an issue that the report never reads is kept to one value
    /\ \A n \in IssueNums \ IssuesRead(output_report, issues_map) : issue_state[n] = "open"
    /\ \E w \in PriorityWorlds :
          issue_labels = [n \in IssueNums |-> TypeLabels(issues_map, n) \o w[n]]
    \* so are the answers of the fetches that are never made
    /\ sub_answers \in
          IF ~show_parent_child THEN {AnswersOf(<<>>)}
          ELSE {a \in AnswerWorlds :
                   \A n \in IssueNums \ IssuesRead(output_report, issues_map) :
                       a[n] = RespJson(JList(<<>>))}
    /\ token = "token"
    /\ GithubConnection_gh = NoConnection
    /\ report_pc = "none"
    /\ runs = 0
    /\ md_file = <<>>
    /\ first_md = <<>>
    /\ hierarchy = EmptyAcc

\* lines 447-449 / 480-482: a repository without any issue is skipped
RepoSkipped(map) == Len(AllIssues(map)) = 0

\* lines 390-392: the report function, looked up by the name of the report
out_report_function(name, repo_name, map, states, labels, answers, gh, show, org) ==
    IF name = "known_bugs"
    THEN convert_issues_to_known_bugs_report(repo_name, map, states, labels, answers,
                                             gh, show, org)
    ELSE convert_issues_to_planning_report(repo_name, map, states, labels, answers,
                                           gh, show, org)

\* line 367: the state filter of a run, by default
DEFAULT_ISSUE_STATE == "all"

\* lines 502-509: what the summary counts; start_time and end_time are None
MetricDescription(state_filter) ==
    IF state_filter = "closed" THEN "Issues closed between start and end"
    ELSE IF state_filter = "open" THEN "Open issues updated in the specified period"
    ELSE "All issues in the specified period"

\* line 608: the file is written
MdCreateFile == [op |-> "create_md_file"]

\* lines 416-425: metrics_by_repo, an entry for each repository of the search
MetricsByRepo(all_repos) ==
    [j \in 1..Len(all_repos) |-> [k |-> all_repos[j].k, v |-> RepoMetrics(all_repos[j].v)]]

\* lines 499-512 and 561-608: the summary of the run, by repository since the run
\* does not group by component, then the save
SummaryMetrics(all_repos) ==
    <<MdHeader(1, "Summary Metrics"),
      MdLine(MetricDescription(DEFAULT_ISSUE_STATE)),
      MdLine(""),
      MdLine(""),
      SummaryTable(MetricsByRepo(all_repos), <<REPO_NAME>>, "Repository"),
      MdCreateFile>>

\* create_md_issue_report, lines 388-392, 405-409, 479-496 and 498-608: get the
\* connection, search, hand each repository that has issues to the report
\* function, then write the summary and save the file; an exception of the report
\* function ends the call at once
RunReport ==
    /\ report_entry = "create_md_issue_report"
    /\ runs < 2
    /\ report_pc # "exit"
    /\ LET c == get_connection(GithubConnection_gh, token)
           all_repos == SearchResult(issues_map)
       IN
       IF c.exit
       THEN /\ report_pc' = "exit"
            /\ UNCHANGED <<GithubConnection_gh, runs, md_file, first_md, hierarchy>>
       ELSE \E r \in {IF all_repos = <<>> \/ RepoSkipped(issues_map)
                      THEN [md |-> <<>>, h |-> EmptyAcc, raised |-> FALSE]
                      ELSE out_report_function(output_report, REPO_NAME, issues_map,
                                               issue_state, issue_labels, sub_answers,
                                               c.gh, show_parent_child,
                                               DEFAULT_GITHUB_ORG)} :
                \E md \in {IF r.raised THEN r.md
                           ELSE r.md \o SummaryMetrics(all_repos)} :
                   /\ GithubConnection_gh' = c.kept
                   /\ report_pc' = IF r.raised THEN "raised" ELSE "returned"
                   /\ runs' = runs + 1
                   /\ md_file' = md
                   /\ first_md' = IF runs = 0 THEN md ELSE first_md
                   /\ hierarchy' = r.h
    /\ UNCHANGED <<issues_map, issue_state, issue_labels, sub_answers,
                   show_parent_child, output_report, token, report_entry>>
    /\ UNCHANGED <<resolveVars, metricsVars, callVars, productsVars, themeVars, fnVars,
                   mainVars, labelVars, procVars>>

\* convert_issues_to_known_bugs_report or convert_issues_to_planning_report called
\* by itself, lines 130-193 and 196-361, on a file of its own and with a
\* connection of the caller
DirectReport ==
    /\ report_entry = "report_function"
    /\ runs < 2
    /\ \E r \in {out_report_function(output_report, REPO_NAME, issues_map, issue_state,
                                      issue_labels, sub_answers, login(token),
                                      show_parent_child, DEFAULT_GITHUB_ORG)} :
          /\ report_pc' = IF r.raised THEN "raised" ELSE "returned"
          /\ runs' = runs + 1
          /\ md_file' = r.md
          /\ first_md' = IF runs = 0 THEN r.md ELSE first_md
          /\ hierarchy' = r.h
    /\ UNCHANGED <<issues_map, issue_state, issue_labels, sub_answers, show_parent_child,
                   output_report, token, report_entry, GithubConnection_gh>>
    /\ UNCHANGED <<resolveVars, metricsVars, callVars, productsVars, themeVars, fnVars,
                   mainVars, labelVars, procVars>>

\* --report known_bugs
KnownBugsReport ==
    /\ output_report = "known_bugs"
    /\ RunReport

\* --report planning
PlanningReport ==
    /\ output_report = "planning"
    /\ RunReport

ReportNext == KnownBugsReport \/ PlanningReport \/ DirectReport

\* no report has been asked for
ReportIdle ==
    /\ issues_map = <<>>
    /\ issue_state = [n \in IssueNums |-> "open"]
    /\ issue_labels = [n \in IssueNums |-> <<>>]
    /\ sub_answers = AnswersOf(<<>>)
    /\ show_parent_child = FALSE
    /\ output_report = "planning"
    /\ token = ""
    /\ report_entry = ""
    /\ GithubConnection_gh = NoConnection
    /\ report_pc = "none"
    /\ runs = 0
    /\ md_file = <<>>
    /\ first_md = <<>>
    /\ hierarchy = EmptyAcc

(***************************************************************************)
(* The metrics of create_md_issue_report as a state machine: the loop over *)
(* the repositories, then the summary table.                               *)
(***************************************************************************)
\* the repositories of a run
RepoNames == SeqToSet(SubSeq(SortedRepoNames, 1, MaxRepos))

\* a list of c issues
IssuesOfCount(c) == [j \in 1..c |-> j]

\* the issues map of a repository (utils.py lines 204-208): a key per issue type,
\* in the order of ISSUE_TYPES, and at least one issue, since the key of a
\* repository comes with its first issue; here with bugs and at most one task
RepoIssueMaps ==
    {MapOf(IssuesOfCount(x[1]), IssuesOfCount(x[2])) :
        x \in {y \in (0..MaxCount) \X (0..1) : y[1] + y[2] >= 1}}

\* the repositories of a run in the order the search met them: here in the
\* sorted order or in its reverse
RepoOrders ==
    LET Sorted(R) == SelectSeq(SortedRepoNames, LAMBDA n : n \in R)
        Reverse(q) == [j \in 1..Len(q) |-> q[Len(q) + 1 - j]]
    IN UNION {{Sorted(R), Reverse(Sorted(R))} : R \in SUBSET RepoNames}

AllReposIssues ==
    UNION {{[j \in 1..Len(o) |-> [k |-> o[j], v |-> f[j]]] :
               f \in [1..Len(o) -> RepoIssueMaps]} : o \in RepoOrders}

\* build_repo_to_product_map: the repositories of the products of the
\* configuration, each with the name of its product
RepoToProductMaps ==
    {LET mapped == SelectSeq(SortedRepoNames, LAMBDA n : n \in RepoNames /\ f[n] # "")
     IN [j \in 1..Len(mapped) |-> [k |-> mapped[j], v |-> f[mapped[j]]]] :
        f \in [RepoNames -> {"", "comp-a", "comp-b"}]}

\* lines 400-413: the arguments read, the configuration loaded, the issues found
MetricsInit ==
    /\ all_repos_issues \in AllReposIssues
    /\ group_by_component \in BOOLEAN
    /\ repo_to_product \in RepoToProductMaps
    \* line 401: repo_to_product stays {} without group_by_component
    /\ ~group_by_component => repo_to_product = <<>>
    /\ metrics_by_repo = <<>>
    /\ metrics_by_component = <<>>
    /\ metrics_pc = "loop"
    /\ repo_idx = 1
    /\ summary_table = <<>>

\* lines 416-441: one iteration of `for repo_name, issues_map in all_repos_issues.items()`
MetricsStep ==
    /\ metrics_pc = "loop"
    /\ repo_idx <= Len(all_repos_issues)
    /\ LET repo_name == all_repos_issues[repo_idx].k
           m == RepoMetrics(all_repos_issues[repo_idx].v)
           component_name == ComponentOf(repo_name, group_by_component, repo_to_product)
       IN /\ metrics_by_repo' = DictSet(metrics_by_repo, repo_name, m)
          /\ metrics_by_component' = AddToComponent(metrics_by_component, component_name, m)
    /\ repo_idx' = repo_idx + 1
    /\ UNCHANGED <<all_repos_issues, repo_to_product, group_by_component, metrics_pc,
                   summary_table>>
    /\ UNCHANGED <<resolveVars, reportVars, callVars, productsVars, themeVars, fnVars,
                   mainVars, labelVars, procVars>>

\* lines 514-560: the table "By Component"
SummaryByComponent ==
    /\ metrics_pc = "loop"
    /\ repo_idx > Len(all_repos_issues)
    /\ ComponentTable(group_by_component, metrics_by_component)
    /\ summary_table' = <<SummaryTable(metrics_by_component, SortedComponentNames,
                                       "Component")>>
    /\ metrics_pc' = "done"
    /\ UNCHANGED <<all_repos_issues, repo_to_product, group_by_component, metrics_by_repo,
                   metrics_by_component, repo_idx>>
    /\ UNCHANGED <<resolveVars, reportVars, callVars, productsVars, themeVars, fnVars,
                   mainVars, labelVars, procVars>>

\* lines 561-606: the table by repository
SummaryByRepo ==
    /\ metrics_pc = "loop"
    /\ repo_idx > Len(all_repos_issues)
    /\ ~ComponentTable(group_by_component, metrics_by_component)
    /\ summary_table' = <<SummaryTable(metrics_by_repo, SortedRepoNames, "Repository")>>
    /\ metrics_pc' = "done"
    /\ UNCHANGED <<all_repos_issues, repo_to_product, group_by_component, metrics_by_repo,
                   metrics_by_component, repo_idx>>
    /\ UNCHANGED <<resolveVars, reportVars, callVars, productsVars, themeVars, fnVars,
                   mainVars, labelVars, procVars>>

MetricsNext == MetricsStep \/ SummaryByComponent \/ SummaryByRepo

\* no metrics run
MetricsIdle ==
    /\ all_repos_issues = <<>>
    /\ repo_to_product = <<>>
    /\ group_by_component = FALSE
    /\ metrics_by_repo = <<>>
    /\ metrics_by_component = <<>>
    /\ metrics_pc = "idle"
    /\ repo_idx = 1
    /\ summary_table = <<>>

(***************************************************************************)
(* build_parent_child_map called against a tracker whose answers are       *)
(* fixed: an issue gets the same answer whenever it is asked about.        *)
(***************************************************************************)
\* what the sub-issue fetch of an issue answers: 404, or 200 with a list of
\* sub-issues inside and outside the list
CallSubResponses ==
    {RespStatus(404)}
        \cup {RespJson(JList(q)) :
                 q \in SeqsUpTo({JObj(JInt(n)) : n \in ResolveNums \cup ExternalNums},
                                MaxSubs)}

\* what the parent fetch of an issue answers: 404, or 200 with a parent
CallParentResponses ==
    {RespStatus(404)} \cup {RespJson(JObj(JInt(n))) : n \in ResolveNums \cup ExternalNums}

\* lines 72, 85-90: the call is entered
CallInit ==
    /\ call_issues \in DistinctSeqsUpTo(ResolveNums, MaxIssues)
    /\ call_sub_answers \in [ResolveNums -> CallSubResponses]
    /\ call_fetch_parents \in BOOLEAN
    /\ call_parent_answers \in [ResolveNums -> CallParentResponses]
    \* what the call never reads is kept to one value
    /\ ~call_fetch_parents => call_parent_answers = [n \in ResolveNums |-> RespStatus(404)]
    /\ \A n \in ResolveNums \ SeqToSet(call_issues) :
          /\ call_sub_answers[n] = RespStatus(404)
          /\ call_parent_answers[n] = RespStatus(404)
    /\ call_pc = "entered"
    /\ call_forward = EmptyAcc
    /\ call_result = EmptyAcc

\* lines 93-104: the first pass
CallForwardPass ==
    /\ call_pc = "entered"
    /\ call_forward' = FirstPass(call_issues, IssueMapKeys(call_issues),
                                 call_sub_answers, EmptyAcc)
    /\ call_pc' = "forward_done"
    /\ UNCHANGED <<call_issues, call_sub_answers, call_parent_answers,
                   call_fetch_parents, call_result>>
    /\ UNCHANGED <<resolveVars, reportVars, metricsVars, productsVars, themeVars, fnVars,
                   mainVars, labelVars, procVars>>

\* lines 107-127: the second pass with fetch_parents, and the return
CallBackwardPass ==
    /\ call_pc = "forward_done"
    /\ call_fetch_parents
    /\ call_result' = SecondPass(call_issues, IssueMapKeys(call_issues),
                                 call_parent_answers, call_forward)
    /\ call_pc' = "returned"
    /\ UNCHANGED <<call_issues, call_sub_answers, call_parent_answers,
                   call_fetch_parents, call_forward>>
    /\ UNCHANGED <<resolveVars, reportVars, metricsVars, productsVars, themeVars, fnVars,
                   mainVars, labelVars, procVars>>

\* lines 107, 127: the return without fetch_parents
CallReturn ==
    /\ call_pc = "forward_done"
    /\ ~call_fetch_parents
    /\ call_result' = call_forward
    /\ call_pc' = "returned"
    /\ UNCHANGED <<call_issues, call_sub_answers, call_parent_answers,
                   call_fetch_parents, call_forward>>
    /\ UNCHANGED <<resolveVars, reportVars, metricsVars, productsVars, themeVars, fnVars,
                   mainVars, labelVars, procVars>>

CallNext == CallForwardPass \/ CallBackwardPass \/ CallReturn

\* no such call
CallIdle ==
    /\ call_issues = <<>>
    /\ call_sub_answers = [n \in ResolveNums |-> RespStatus(404)]
    /\ call_parent_answers = [n \in ResolveNums |-> RespStatus(404)]
    /\ call_fetch_parents = FALSE
    /\ call_pc = "idle"
    /\ call_forward = EmptyAcc
    /\ call_result = EmptyAcc

(***************************************************************************)
(* build_repo_to_product_map as a state machine: one call.                 *)
(***************************************************************************)
ProductNames == {"comp-a", "comp-b"}

\* what a product of the configuration can hold
ProductInfos ==
    {InfoNone}
        \cup {InfoOf(i, "absent", <<>>) : i \in BOOLEAN}
        \cup {InfoOf(i, "null", <<>>) : i \in BOOLEAN}
        \cup {InfoOf(i, "list", r) : i \in BOOLEAN, r \in DistinctSeqsUpTo(RepoNames, MaxRepos)}

\* the configurations of the model
ProductConfigs ==
    {ConfigNone, ConfigNoProducts, ConfigNullProducts}
        \cup UNION {{ConfigOf([j \in 1..Len(o) |-> [k |-> o[j], v |-> f[j]]]) :
                        f \in [1..Len(o) -> ProductInfos]} :
                    o \in DistinctSeqsUpTo(ProductNames, 2)}

ProductsInit ==
    /\ products_config \in ProductConfigs
    /\ repo_map = <<>>
    /\ products_pc = "entered"

\* the call runs to its end
BuildRepoToProductMap ==
    /\ products_pc = "entered"
    /\ LET r == build_repo_to_product_map(products_config)
       IN /\ repo_map' = r.map
          /\ products_pc' = IF r.raised THEN "raised" ELSE "returned"
    /\ UNCHANGED products_config
    /\ UNCHANGED <<resolveVars, reportVars, metricsVars, callVars, themeVars, fnVars,
                   mainVars, labelVars, procVars>>

ProductsNext == BuildRepoToProductMap

\* no such call
ProductsIdle ==
    /\ products_config = ConfigNone
    /\ repo_map = <<>>
    /\ products_pc = "idle"

(***************************************************************************)
(* create_release_theme as a state machine: one row, the call made by each *)
(* run of the tool over it; every step runs the commands of one helper.    *)
(***************************************************************************)
\* str.strip of the output of `gh issue create`: the URL without its newline
Strip(s) ==
    IF Len(s) > 0 /\ SubSeq(s, Len(s), Len(s)) = "\n" THEN SubSeq(s, 1, Len(s) - 1) ELSE s

ThemeDates ==
    {DateYmd(2025, 9, 5, TRUE), DateYmd(2025, 9, 5, FALSE), DateYmd(2025, 2, 30, TRUE),
     DateText, DateNaN}

\* a product, an empty cell, and a file without the column
ThemeProducts == {ProductText("Registry"), ProductNaN, ProductText("")}

ThemeRows ==
    {[Title |-> "Cloud", Repo |-> "NASA-PDS/registry", StartDate |-> s, EndDate |-> e,
      Product |-> p] : s \in ThemeDates, e \in ThemeDates, p \in ThemeProducts}

BuildNumbers == {1, 17}

\* the two outcomes of a command whose output is not read
RcResults == {GhResult(0, ""), GhResult(1, "")}

IssueItems(title) ==
    {IssueItem(title), IssueItem(title \o " (copy)"), IssueItemNoTitle, IssueItemString}

IssueListResults(title) ==
    {GhResult(1, IssuesText), GhResult(0, IssuesText), GhResult(0, IssuesNull)}
        \cup {GhResult(0, IssuesList(i)) : i \in SeqsUpTo(IssueItems(title), MaxListed)}

\* the labels a repository of the model can have, in the order gh lists them
RepoLabels == {<<>>, <<"bug">>, <<"bug", "B17">>, <<"B1", "bug">>}

\* what `gh label list` prints for them: one line for each label
RECURSIVE LabelListOutput(_)
LabelListOutput(labels) ==
    IF labels = <<>> THEN "" ELSE Head(labels) \o "\n" \o LabelListOutput(Tail(labels))

LabelListResults ==
    {GhResult(1, "")} \cup {GhResult(0, LabelListOutput(l)) : l \in RepoLabels}

IssueCreateResults(repo, number) ==
    {GhResult(1, ""),
     GhResult(0, "https://github.com/" \o repo \o "/issues/" \o ToString(number) \o "\n")}

ProjectListResults(label) ==
    {GhResult(1, ProjectsText), GhResult(0, ProjectsText)}
        \cup {GhResult(0, ProjectsObj(p)) :
                 p \in {<<>>,
                        <<Project(label, "7", "PVT_7")>>,
                        <<Project("B0", "3", "PVT_3"), Project(label, "7", "PVT_7")>>,
                        <<Project(label, "missing", "PVT_7")>>,
                        <<Project(label, "7", "")>>}}

ItemQueryResults ==
    {GhResult(1, ItemsText), GhResult(0, ItemsText)}
        \cup {GhResult(0, ItemsObj(n)) :
                 n \in {<<>>,
                        <<ItemNode("PVTI_1", "PVT_3")>>,
                        <<ItemNode("PVTI_1", "PVT_3"), ItemNode("PVTI_2", "PVT_7")>>}}

FieldsResults ==
    {GhResult(1, FieldsText), GhResult(0, FieldsText)}
        \cup {GhResult(0, FieldsObj(n)) :
                 n \in {{}, {"Start date", "End date"}, {"Product", "Start date", "End date"}}}

\* the locals of a call before the function assigns them
ThemeLocalsUnset ==
    /\ gh_log = <<>>
    /\ helper_calls = <<>>
    /\ theme_result = ReturnNone
    /\ theme_exists = "not called"
    /\ issue_list_result = GhResult(1, IssuesText)
    /\ issue_create_result = GhResult(0, "")
    /\ item_add_result = GhResult(0, "")
    /\ start_date_iso = DateNaN
    /\ end_date_iso = DateNaN
    /\ issue_url = ""
    /\ project_ids = NoProject
    /\ item_id = ""

ThemeInit ==
    /\ theme_row \in ThemeRows
    /\ build_number \in BuildNumbers
    /\ dry_run \in BOOLEAN
    /\ theme_pc = "entered"
    /\ theme_calls = 1
    /\ created_titles = <<>>
    /\ ThemeLocalsUnset

\* lines 455-472: the title, and the check for an existing issue unless dry_run
ThemeCheckExisting ==
    /\ theme_pc = "entered"
    /\ LET title == FullTitle(build_number, theme_row.Title)
       IN IF dry_run
          THEN /\ theme_pc' = "dates"
               /\ UNCHANGED <<gh_log, helper_calls, theme_exists, theme_result,
                              issue_list_result>>
          ELSE \E list_result \in IssueListResults(title) :
                  LET r == check_issue_exists(list_result, title)
                  IN /\ gh_log' = Append(gh_log, GhCommand("issue list", title))
                     /\ issue_list_result' = list_result
                     /\ helper_calls' = Append(helper_calls, "check_issue_exists")
                     /\ theme_exists' = IF r.raised # "" THEN "raised"
                                        ELSE IF r.result THEN "True" ELSE "False"
                     /\ theme_pc' = IF r.raised # "" THEN "raised"
                                    ELSE IF r.result THEN "returned" ELSE "dates"
                     /\ theme_result' = IF r.raised = "" /\ r.result
                                        THEN ReturnStr("SKIPPED") ELSE theme_result
    /\ UNCHANGED <<issue_create_result, item_add_result, theme_row, build_number, dry_run,
                   theme_calls,
                   created_titles,
                   start_date_iso, end_date_iso, issue_url, project_ids, item_id>>
    /\ UNCHANGED <<resolveVars, reportVars, metricsVars, callVars, productsVars, fnVars,
                   mainVars, labelVars, procVars>>

\* lines 474-480: the two dates; a ValueError returns None, any other exception
\* leaves the function
ThemeParseDates ==
    /\ theme_pc = "dates"
    /\ LET s == parse_date(theme_row.StartDate)
           e == parse_date(theme_row.EndDate)
           raised == IF s.raised # "" THEN s.raised ELSE e.raised
       IN /\ helper_calls' = helper_calls \o (IF s.raised # "" THEN <<"parse_date">>
                                              ELSE <<"parse_date", "parse_date">>)
          /\ start_date_iso' = IF s.raised = "" THEN s.value ELSE start_date_iso
          /\ end_date_iso' = IF raised = "" THEN e.value ELSE end_date_iso
          /\ theme_pc' = IF raised = "" THEN "label"
                         ELSE IF raised = "ValueError" THEN "returned" ELSE "raised"
          /\ theme_result' = ReturnNone
    /\ UNCHANGED <<issue_list_result, issue_create_result, item_add_result, theme_row,
                   build_number, dry_run, theme_calls, created_titles,
                   gh_log, theme_exists, issue_url, project_ids, item_id>>
    /\ UNCHANGED <<resolveVars, reportVars, metricsVars, callVars, productsVars, fnVars,
                   mainVars, labelVars, procVars>>

\* lines 482-490: the build label, then the body and the labels of the issue
ThemeEnsureLabel ==
    /\ theme_pc = "label"
    /\ \E list_result \in LabelListResults, create_result \in RcResults :
          LET r == ensure_label_exists(list_result, create_result, theme_row.Repo,
                                       BuildLabel(build_number), dry_run)
          IN /\ gh_log' = gh_log \o r.cmds
             /\ helper_calls' = helper_calls \o <<"ensure_label_exists", "create_issue_body">>
             /\ theme_pc' = "create"
    /\ UNCHANGED <<issue_list_result, issue_create_result, item_add_result, theme_row,
                   build_number, dry_run, theme_calls, created_titles,
                   theme_result, theme_exists, start_date_iso, end_date_iso, issue_url,
                   project_ids, item_id>>
    /\ UNCHANGED <<resolveVars, reportVars, metricsVars, callVars, productsVars, fnVars,
                   mainVars, labelVars, procVars>>

\* lines 492-501: a dry run logs what it would create and returns
ThemeDryRun ==
    /\ theme_pc = "create"
    /\ dry_run
    /\ theme_result' = ReturnStr(DryRunUrl(theme_row.Repo))
    /\ theme_pc' = "returned"
    /\ UNCHANGED <<issue_list_result, issue_create_result, item_add_result, theme_row,
                   build_number, dry_run, theme_calls, created_titles,
                   gh_log, helper_calls, theme_exists, start_date_iso, end_date_iso,
                   issue_url, project_ids, item_id>>
    /\ UNCHANGED <<resolveVars, reportVars, metricsVars, callVars, productsVars, fnVars,
                   mainVars, labelVars, procVars>>

\* CreateFailed without the test of line 515
CreateFailedNever(result) == FALSE

\* line 515: the command that creates the issue failed
CreateFailed(result) == result.returncode # 0

\* lines 503-521: `gh issue create`; a failure returns None
ThemeCreateIssue ==
    /\ theme_pc = "create"
    /\ ~dry_run
    /\ LET title == FullTitle(build_number, theme_row.Title)
       IN \E result \in IssueCreateResults(theme_row.Repo, Len(created_titles) + 1) :
             /\ gh_log' = Append(gh_log, GhCommand("issue create", title))
             /\ issue_create_result' = result
             /\ IF CreateFailed(result)
                THEN /\ theme_result' = ReturnNone
                     /\ theme_pc' = "returned"
                     /\ UNCHANGED <<issue_url, created_titles>>
                ELSE /\ issue_url' = Strip(result.stdout)
                     /\ created_titles' = Append(created_titles, title)
                     /\ theme_pc' = "project"
                     /\ UNCHANGED theme_result
    /\ UNCHANGED <<issue_list_result, item_add_result, theme_row, build_number, dry_run,
                   theme_calls,
                   helper_calls,
                   theme_exists, start_date_iso, end_date_iso, project_ids, item_id>>
    /\ UNCHANGED <<resolveVars, reportVars, metricsVars, callVars, productsVars, fnVars,
                   mainVars, labelVars, procVars>>

\* ProjectFound with the project number alone
ProjectFoundByNumber(p) == p.project_number # ""

\* line 525: `if project_number and project_node_id`
ProjectFound(p) == p.project_number # "" /\ p.project_node_id # ""

\* lines 524-525, 562-565: the project of the build; without it the URL is returned
ThemeFindProject ==
    /\ theme_pc = "project"
    /\ \E list_result \in ProjectListResults(BuildLabel(build_number)) :
          LET p == find_project_id(list_result, BuildLabel(build_number))
              found == ProjectFound(p)
          IN /\ project_ids' = p
             /\ theme_pc' = IF found THEN "item_add" ELSE "returned"
             /\ theme_result' = IF found THEN theme_result ELSE ReturnStr(issue_url)
    /\ gh_log' = Append(gh_log, GhCommand("project list", "NASA-PDS"))
    /\ helper_calls' = Append(helper_calls, "find_project_id")
    /\ UNCHANGED <<issue_list_result, issue_create_result, item_add_result, theme_row,
                   build_number, dry_run, theme_calls, created_titles,
                   theme_exists, start_date_iso, end_date_iso, issue_url, item_id>>
    /\ UNCHANGED <<resolveVars, reportVars, metricsVars, callVars, productsVars, fnVars,
                   mainVars, labelVars, procVars>>

\* lines 526-535, 560-565: `gh project item-add`; a failure returns the URL
ThemeItemAdd ==
    /\ theme_pc = "item_add"
    /\ \E result \in RcResults :
          /\ item_add_result' = result
          /\ theme_pc' = IF result.returncode = 0 THEN "item_id" ELSE "returned"
          /\ theme_result' = IF result.returncode = 0 THEN theme_result
                             ELSE ReturnStr(issue_url)
    /\ gh_log' = Append(gh_log, GhCommand("project item-add", project_ids.project_number))
    /\ UNCHANGED <<issue_list_result, issue_create_result, theme_row,
                   build_number, dry_run, theme_calls, created_titles,
                   helper_calls, theme_exists, start_date_iso, end_date_iso, issue_url,
                   project_ids, item_id>>
    /\ UNCHANGED <<resolveVars, reportVars, metricsVars, callVars, productsVars, fnVars,
                   mainVars, labelVars, procVars>>

\* lines 538-539, 558-565: the id of the project item; without it the URL is returned
ThemeItemId ==
    /\ theme_pc = "item_id"
    /\ \E query_result \in ItemQueryResults :
          LET i == get_project_item_id(query_result, project_ids.project_node_id)
          IN /\ item_id' = i
             /\ theme_pc' = IF i # "" THEN "fields" ELSE "returned"
             /\ theme_result' = IF i # "" THEN theme_result ELSE ReturnStr(issue_url)
    /\ gh_log' = Append(gh_log, GhCommand("api graphql query items", issue_url))
    /\ helper_calls' = Append(helper_calls, "get_project_item_id")
    /\ UNCHANGED <<issue_list_result, issue_create_result, item_add_result, theme_row,
                   build_number, dry_run, theme_calls, created_titles,
                   theme_exists, start_date_iso, end_date_iso, issue_url, project_ids>>
    /\ UNCHANGED <<resolveVars, reportVars, metricsVars, callVars, productsVars, fnVars,
                   mainVars, labelVars, procVars>>

\* the fields lines 540-557 set, in order: Product under `if product:`, which is
\* true of a text that is not empty and of the nan of an empty cell
ThemeFieldNames ==
    (IF theme_row.Product.t = "nan" \/ theme_row.Product.v # "" THEN <<"Product">> ELSE <<>>)
        \o <<"Start date", "End date">>

\* what one call of set_project_field can do for the field `name`, over the
\* answers to its fields query and to its mutation
FieldOutcomes(name) ==
    {set_project_field(q, m, name) : q \in FieldsResults, m \in RcResults}

\* what the calls for the fields `names` can do, one after the other
RECURSIVE FieldUpdates(_)
FieldUpdates(names) ==
    IF names = <<>> THEN {<<>>}
    ELSE {<<o>> \o rest : o \in FieldOutcomes(Head(names)), rest \in FieldUpdates(Tail(names))}

\* lines 540-557, 565: the fields of the project item, then the URL is returned
ThemeSetFields ==
    /\ theme_pc = "fields"
    /\ \E r \in FieldUpdates(ThemeFieldNames) :
          /\ gh_log' = gh_log \o Concat([j \in 1..Len(r) |-> r[j].cmds])
          /\ helper_calls' = helper_calls \o [j \in 1..Len(r) |-> "set_project_field"]
    /\ theme_result' = ReturnStr(issue_url)
    /\ theme_pc' = "returned"
    /\ UNCHANGED <<issue_list_result, issue_create_result, item_add_result, theme_row,
                   build_number, dry_run, theme_calls, created_titles,
                   theme_exists, start_date_iso, end_date_iso, issue_url, project_ids,
                   item_id>>
    /\ UNCHANGED <<resolveVars, reportVars, metricsVars, callVars, productsVars, fnVars,
                   mainVars, labelVars, procVars>>

\* the tool is run again over the same row: a new call, in the repository the
\* earlier calls left
ThemeCallAgain ==
    /\ theme_pc \in {"returned", "raised"}
    /\ theme_calls < MaxThemeCalls
    /\ theme_calls' = theme_calls + 1
    /\ theme_pc' = "entered"
    /\ gh_log' = <<>>
    /\ helper_calls' = <<>>
    /\ theme_result' = ReturnNone
    /\ theme_exists' = "not called"
    /\ issue_list_result' = GhResult(1, IssuesText)
    /\ issue_create_result' = GhResult(0, "")
    /\ item_add_result' = GhResult(0, "")
    /\ start_date_iso' = DateNaN
    /\ end_date_iso' = DateNaN
    /\ issue_url' = ""
    /\ project_ids' = NoProject
    /\ item_id' = ""
    /\ UNCHANGED <<theme_row, build_number, dry_run, created_titles>>
    /\ UNCHANGED <<resolveVars, reportVars, metricsVars, callVars, productsVars, fnVars,
                   mainVars, labelVars, procVars>>

ThemeNext ==
    \/ ThemeCheckExisting
    \/ ThemeParseDates
    \/ ThemeEnsureLabel
    \/ ThemeDryRun
    \/ ThemeCreateIssue
    \/ ThemeFindProject
    \/ ThemeItemAdd
    \/ ThemeItemId
    \/ ThemeSetFields
    \/ ThemeCallAgain

\* no such call
ThemeIdle ==
    /\ theme_row = [Title |-> "", Repo |-> "", StartDate |-> DateNaN, EndDate |-> DateNaN,
                    Product |-> ProductText("")]
    /\ build_number = 0
    /\ dry_run = FALSE
    /\ theme_pc = "idle"
    /\ theme_calls = 0
    /\ created_titles = <<>>
    /\ ThemeLocalsUnset

(***************************************************************************)
(* ensure_label_exists and check_issue_exists, each called by itself.      *)
(***************************************************************************)
FnTitles == {"B17 Cloud", "B1 Cloud"}

FnInit ==
    /\ fn \in {"ensure_label_exists", "check_issue_exists"}
    /\ IF fn = "ensure_label_exists"
       THEN /\ fn_name \in {BuildLabel(b) : b \in BuildNumbers}
            /\ fn_dry_run \in BOOLEAN
            /\ fn_labels \in RepoLabels
            \* the list command fails, or prints the labels of the repository
            /\ fn_list_result \in {GhResult(1, ""), GhResult(0, LabelListOutput(fn_labels))}
            /\ fn_create_result \in RcResults
       ELSE /\ fn_name \in FnTitles
            /\ fn_dry_run = FALSE
            /\ fn_labels = <<>>
            /\ fn_list_result \in IssueListResults(fn_name)
            /\ fn_create_result = GhResult(0, "")
    /\ fn_pc = "entered"
    /\ fn_cmds = <<>>
    /\ fn_return = FALSE

\* lines 93-124: the call of ensure_label_exists runs to its end
EnsureLabelExists ==
    /\ fn = "ensure_label_exists"
    /\ fn_pc = "entered"
    /\ LET r == ensure_label_exists(fn_list_result, fn_create_result, "NASA-PDS/registry",
                                    fn_name, fn_dry_run)
       IN /\ fn_cmds' = r.cmds
          /\ fn_return' = r.result
          /\ fn_pc' = "returned"
    /\ UNCHANGED <<fn, fn_name, fn_dry_run, fn_labels, fn_list_result, fn_create_result>>
    /\ UNCHANGED <<resolveVars, reportVars, metricsVars, callVars, productsVars, themeVars,
                   mainVars, labelVars, procVars>>

\* lines 127-159: the call of check_issue_exists runs to its end
CheckIssueExists ==
    /\ fn = "check_issue_exists"
    /\ fn_pc = "entered"
    /\ LET r == check_issue_exists(fn_list_result, fn_name)
       IN /\ fn_cmds' = <<GhCommand("issue list", fn_name)>>
          /\ fn_return' = r.result
          /\ fn_pc' = IF r.raised # "" THEN "raised" ELSE "returned"
    /\ UNCHANGED <<fn, fn_name, fn_dry_run, fn_labels, fn_list_result, fn_create_result>>
    /\ UNCHANGED <<resolveVars, reportVars, metricsVars, callVars, productsVars, themeVars,
                   mainVars, labelVars, procVars>>

FnNext == EnsureLabelExists \/ CheckIssueExists

\* no such call
FnIdle ==
    /\ fn = "idle"
    /\ fn_name = ""
    /\ fn_dry_run = FALSE
    /\ fn_labels = <<>>
    /\ fn_list_result = GhResult(0, "")
    /\ fn_create_result = GhResult(0, "")
    /\ fn_pc = "idle"
    /\ fn_cmds = <<>>
    /\ fn_return = FALSE

(***************************************************************************)
(* main of create_release_themes.py: the rows of the CSV file, one call of *)
(* create_release_theme for each, then the exit.                           *)
(***************************************************************************)
\* the rows of the model, as pd.read_csv gives them (line 620): a theme that can
\* be created, one whose start date is no date, one whose start date cell is
\* empty, and a row without a title ("": the nan of an empty cell); an empty cell
\* of the product column is nan
MainRows ==
    {[Title |-> "Cloud", Repo |-> "NASA-PDS/registry", StartDate |-> DateYmd(2025, 9, 5, TRUE),
      EndDate |-> DateYmd(2025, 9, 5, TRUE), Product |-> ProductNaN],
     [Title |-> "Search", Repo |-> "NASA-PDS/registry", StartDate |-> DateText,
      EndDate |-> DateYmd(2025, 9, 5, TRUE), Product |-> ProductNaN],
     [Title |-> "Data", Repo |-> "NASA-PDS/registry", StartDate |-> DateNaN,
      EndDate |-> DateYmd(2025, 9, 5, TRUE), Product |-> ProductText("Registry")],
     [Title |-> "", Repo |-> "NASA-PDS/registry", StartDate |-> DateYmd(2025, 9, 5, TRUE),
      EndDate |-> DateYmd(2025, 9, 5, TRUE), Product |-> ProductNaN]}

\* the same rows read from a file that has no product column: row.get gives ""
WithoutProductColumn(rows) ==
    [j \in 1..Len(rows) |-> [rows[j] EXCEPT !.Product = ProductText("")]]

\* the files of the model, with and without the product column
CsvFiles ==
    LET files == SeqsUpTo(MainRows, MaxRows)
    IN files \cup {WithoutProductColumn(f) : f \in files}

\* line 626: df.dropna(subset=["Title", "Repo"])
DropNa(rows) == SelectSeq(rows, LAMBDA r : r.Title # "" /\ r.Repo # "")

\* how a call ended: by an exception, or with what it returned
Outcome(raised, result) == [raised |-> raised, result |-> result]

\* Classify with None taken for "SKIPPED"
ClassifyNoneAsSkipped(outcome) ==
    IF outcome.raised THEN "failed"
    ELSE IF ~outcome.result.none /\ outcome.result.value # ""
            /\ outcome.result.value # "SKIPPED" THEN "created"
    ELSE "skipped"

\* lines 645-654: the list the row goes to
Classify(outcome) ==
    IF outcome.raised THEN "failed"
    ELSE IF ~outcome.result.none /\ outcome.result.value # ""
            /\ outcome.result.value # "SKIPPED" THEN "created"
    ELSE IF ~outcome.result.none /\ outcome.result.value = "SKIPPED" THEN "skipped"
    ELSE "failed"

MainInit ==
    /\ csv_rows \in CsvFiles
    /\ main_pc = "loop"
    /\ row_idx = 0
    /\ created_issues = <<>>
    /\ skipped_issues = <<>>
    /\ failed_issues = <<>>
    /\ exit_status = -1
    /\ outcomes = <<>>
    /\ build_number = 17
    /\ dry_run \in BOOLEAN
    /\ theme_row = [Title |-> "", Repo |-> "", StartDate |-> DateNaN, EndDate |-> DateNaN,
                    Product |-> ProductText("")]
    /\ theme_pc = "idle"
    /\ theme_calls = 0
    /\ created_titles = <<>>
    /\ ThemeLocalsUnset

\* lines 605-623: the CSV file is missing or unreadable, or gh is not installed
MainAbort ==
    /\ main_pc = "loop"
    /\ row_idx = 0
    /\ theme_pc = "idle"
    /\ main_pc' = "aborted"
    /\ exit_status' = 1
    /\ UNCHANGED <<csv_rows, row_idx, created_issues, skipped_issues, failed_issues, outcomes>>
    /\ UNCHANGED <<resolveVars, reportVars, metricsVars, callVars, productsVars, themeVars,
                   fnVars, labelVars, procVars>>

\* lines 641-643: the loop takes the next row and calls create_release_theme
MainCallTheme ==
    /\ main_pc = "loop"
    /\ theme_pc = "idle"
    /\ row_idx < Len(DropNa(csv_rows))
    /\ row_idx' = row_idx + 1
    /\ theme_row' = DropNa(csv_rows)[row_idx + 1]
    /\ theme_pc' = "entered"
    /\ theme_calls' = theme_calls + 1
    /\ UNCHANGED <<build_number, dry_run, created_titles, gh_log, helper_calls, theme_result,
                   theme_exists, issue_list_result, issue_create_result, item_add_result,
                   start_date_iso, end_date_iso, issue_url, project_ids, item_id>>
    /\ UNCHANGED <<csv_rows, main_pc, created_issues, skipped_issues, failed_issues,
                   exit_status, outcomes>>
    /\ UNCHANGED <<resolveVars, reportVars, metricsVars, callVars, productsVars, fnVars,
                   labelVars, procVars>>

\* lines 643-654: the call has ended; the row goes to one of the three lists
MainRecord ==
    /\ main_pc = "loop"
    /\ theme_pc \in {"returned", "raised"}
    /\ LET outcome == Outcome(theme_pc = "raised", theme_result)
           full_title == BuildLabel(build_number) \o " " \o theme_row.Title
           list == Classify(outcome)
       IN /\ outcomes' = Append(outcomes, outcome)
          /\ created_issues' = IF list = "created"
                               THEN Append(created_issues, <<full_title, theme_result.value>>)
                               ELSE created_issues
          /\ skipped_issues' = IF list = "skipped" THEN Append(skipped_issues, full_title)
                               ELSE skipped_issues
          /\ failed_issues' = IF list = "failed" THEN Append(failed_issues, full_title)
                              ELSE failed_issues
    \* the locals of the call are gone
    /\ theme_pc' = "idle"
    /\ gh_log' = <<>>
    /\ helper_calls' = <<>>
    /\ theme_result' = ReturnNone
    /\ theme_exists' = "not called"
    /\ issue_list_result' = GhResult(1, IssuesText)
    /\ issue_create_result' = GhResult(0, "")
    /\ item_add_result' = GhResult(0, "")
    /\ start_date_iso' = DateNaN
    /\ end_date_iso' = DateNaN
    /\ issue_url' = ""
    /\ project_ids' = NoProject
    /\ item_id' = ""
    /\ UNCHANGED <<theme_row, build_number, dry_run, theme_calls, created_titles>>
    /\ UNCHANGED <<csv_rows, main_pc, row_idx, exit_status>>
    /\ UNCHANGED <<resolveVars, reportVars, metricsVars, callVars, productsVars, fnVars,
                   labelVars, procVars>>

\* lines 656-677: the loop is over: the summary, then sys.exit
MainExit ==
    /\ main_pc = "loop"
    /\ theme_pc = "idle"
    /\ row_idx = Len(DropNa(csv_rows))
    /\ main_pc' = "exited"
    /\ exit_status' = IF failed_issues = <<>> THEN 0 ELSE 1
    /\ UNCHANGED <<csv_rows, row_idx, created_issues, skipped_issues, failed_issues, outcomes>>
    /\ UNCHANGED <<resolveVars, reportVars, metricsVars, callVars, productsVars, themeVars,
                   fnVars, labelVars, procVars>>

MainNext ==
    \/ MainAbort
    \/ MainCallTheme
    \/ MainRecord
    \/ MainExit
    \/ ThemeCheckExisting
    \/ ThemeParseDates
    \/ ThemeEnsureLabel
    \/ ThemeDryRun
    \/ ThemeCreateIssue
    \/ ThemeFindProject
    \/ ThemeItemAdd
    \/ ThemeItemId
    \/ ThemeSetFields

\* no run of main
MainIdle ==
    /\ csv_rows = <<>>
    /\ main_pc = "idle"
    /\ row_idx = 0
    /\ created_issues = <<>>
    /\ skipped_issues = <<>>
    /\ failed_issues = <<>>
    /\ exit_status = -1
    /\ outcomes = <<>>

(***************************************************************************)
(* add_version_label_to_open_bugs.py: the label of a version on the open   *)
(* bugs of a repository.  The issues of the repository are the issues of   *)
(* IssueNums, with the state and the labels the tracker has for them.      *)
(***************************************************************************)
LabelNames == {"open.1.0", "open.2.0"}

\* issue.add_labels: the tracker keeps a label once
AddLabels(labels, name) ==
    IF name \in SeqToSet(labels) THEN labels ELSE Append(labels, name)

\* line 19: repo.issues(state="open", labels=["bug"])
OpenBugs(states, labels) ==
    {n \in IssueNums : states[n] = "open" /\ "bug" \in SeqToSet(labels[n])}

LabelInit ==
    /\ issue_state \in [IssueNums -> {"open", "closed"}]
    /\ \E map \in IssueMaps \cup {NoRepository} : \E w \in PriorityWorlds :
          issue_labels = [n \in IssueNums |-> TypeLabels(map, n) \o w[n]]
    /\ label_name \in LabelNames
    /\ label_pc \in {"main", "entered"}
    /\ token \in {"", "token"}
    /\ label_pc = "entered" => token = "token"
    /\ GithubConnection_gh = NoConnection
    /\ report_entry = ""
    /\ issues_map = <<>>
    /\ sub_answers = AnswersOf(<<>>)
    /\ show_parent_child = FALSE
    /\ output_report = "planning"
    /\ report_pc = "none"
    /\ runs = 0
    /\ md_file = <<>>
    /\ first_md = <<>>
    /\ hierarchy = EmptyAcc

\* add_label_to_open_bugs, lines 9-20: every open issue with the label bug gets
\* the label
AddLabelToOpenBugs ==
    /\ label_pc = "entered"
    /\ issue_labels' = [n \in IssueNums |->
                           IF n \in OpenBugs(issue_state, issue_labels)
                           THEN AddLabels(issue_labels[n], label_name)
                           ELSE issue_labels[n]]
    /\ label_pc' = "returned"
    /\ UNCHANGED <<issues_map, issue_state, sub_answers, show_parent_child, output_report,
                   token, GithubConnection_gh, report_pc, runs, md_file, first_md, hierarchy,
                   report_entry>>
    /\ UNCHANGED label_name
    /\ UNCHANGED <<resolveVars, metricsVars, callVars, productsVars, themeVars, fnVars,
                   mainVars, procVars>>

\* main, lines 23-40: the connection, the repository, then line 38 reads
\* args.version, an attribute the parser never sets (--labelled-version is
\* args.labelled_version): AttributeError before any label is created or added
LabelMain ==
    /\ label_pc = "main"
    /\ LET c == get_connection(GithubConnection_gh, token) IN
       IF c.exit
       THEN /\ label_pc' = "exit"
            /\ UNCHANGED GithubConnection_gh
       ELSE /\ label_pc' = "raised"
            /\ GithubConnection_gh' = c.kept
    /\ UNCHANGED <<issues_map, issue_state, issue_labels, sub_answers, show_parent_child,
                   output_report, token, report_pc, runs, md_file, first_md, hierarchy,
                   report_entry>>
    /\ UNCHANGED label_name
    /\ UNCHANGED <<resolveVars, metricsVars, callVars, productsVars, themeVars, fnVars,
                   mainVars, procVars>>

LabelNext == AddLabelToOpenBugs \/ LabelMain

\* no run of add_version_label_to_open_bugs
LabelIdle ==
    /\ label_name = ""
    /\ label_pc = "idle"

(***************************************************************************)
(* A process that makes the same report call twice, step by step.  The     *)
(* two calls share the class attribute GithubConnection.gh, the issue map, *)
(* the issues, the tracker and, for a caller of a report function, the     *)
(* connection and the MdUtils file it hands in.  The variables of          *)
(* build_parent_child_map are those of the call the report makes.          *)
(***************************************************************************)
\* a call is made with a token, or without one ("": no argument, no GITHUB_TOKEN)
Tokens == {"token", ""}

\* the issues of the repository of these runs
ProcNums == 1..2

\* the maps of these runs: those the search builds, and for a caller of a report
\* function also a map without the key "bug" and one with every list empty
ProcMaps(entry) ==
    {m \in IF entry = "create_md_issue_report" THEN IssueMaps \cup {NoRepository}
           ELSE IssueMaps \cup DirectMaps :
        SeqToSet(AllIssues(m)) \subseteq ProcNums}

\* the tracker lists a sub-issue of an issue once; in the last world the fetch
\* for issue 1 answers 200 with a dict
ProcAnswerWorlds ==
    {AnswersOf(l) : l \in DistinctSeqsUpTo({k \in Links : k[1] \in ProcNums /\ k[2] \in ProcNums},
                                           MaxLinks)}
        \cup {[n \in IssueNums |-> IF n = 1 THEN RespJson(JObjNoNumber)
                                   ELSE RespJson(JList(<<>>))]}

ProcInit ==
    /\ report_entry \in {"create_md_issue_report", "report_function"}
    /\ output_report \in {"planning", "known_bugs"}
    /\ show_parent_child \in BOOLEAN
    /\ issues_map \in ProcMaps(report_entry)
    /\ issue_state \in [IssueNums -> {"open", "closed"}]
    \* the state of an issue that the report never reads is kept to one value
    /\ \A n \in IssueNums \ IssuesRead(output_report, issues_map) : issue_state[n] = "open"
    /\ \E w \in PriorityWorlds :
          issue_labels = [n \in IssueNums |-> TypeLabels(issues_map, n) \o w[n]]
    \* so are the answers of the fetches that are never made
    /\ sub_answers \in
          IF ~show_parent_child THEN {AnswersOf(<<>>)}
          ELSE {a \in ProcAnswerWorlds :
                   \A n \in IssueNums \ IssuesRead(output_report, issues_map) :
                       a[n] = RespJson(JList(<<>>))}
    \* the token of the connection a caller of a report function hands in
    /\ token = "token"
    /\ GithubConnection_gh = NoConnection
    /\ report_pc = "call"
    /\ runs = 0
    /\ md_file = <<>>
    /\ first_md = <<>>
    /\ first_end = ""
    /\ hierarchy = EmptyAcc
    /\ call_token = ""
    /\ report_gh = NoConnection
    /\ report_issues = <<>>
    /\ parent_issues_to_add = <<>>
    /\ report_parent_issues = <<>>
    /\ standalone_issues = <<>>
    /\ run_calls = <<>>
    /\ ResolveIdle

\* md_file.new_header, new_line, new_table: the calls are made on the file
Written(calls) == md_file' = md_file \o calls /\ run_calls' = run_calls \o calls

\* where a report function returns to: create_md_issue_report goes on with the
\* summary, a caller of the function has its call back
AfterReport == IF report_entry = "create_md_issue_report" THEN "summary" ELSE "returned"

\* create_md_issue_report, line 388: the connection, kept in the class attribute
ProcGetConnection ==
    /\ report_entry = "create_md_issue_report"
    /\ report_pc = "call"
    /\ \E t \in Tokens :
          LET c == get_connection(GithubConnection_gh, t)
          IN /\ call_token' = t
             /\ GithubConnection_gh' = c.kept
             /\ report_gh' = c.gh
             /\ report_pc' = IF c.exit THEN "exit" ELSE "search"
    /\ runs' = runs + 1
    /\ UNCHANGED <<issues_map, issue_state, issue_labels, sub_answers, show_parent_child,
                   output_report, token, md_file, first_md, hierarchy, report_entry>>
    /\ UNCHANGED <<report_issues, parent_issues_to_add, report_parent_issues,
                   standalone_issues, run_calls, first_end>>
    /\ UNCHANGED <<resolveVars, metricsVars, callVars, productsVars, themeVars, fnVars,
                   mainVars, labelVars>>

\* lines 394-409 and 479-486: a new MdUtils file, the search, and the one
\* repository of the tracker, skipped when the search found no issue in it
ProcSearch ==
    /\ report_pc = "search"
    /\ md_file' = <<>>
    /\ run_calls' = <<>>
    /\ report_pc' = IF SearchResult(issues_map) = <<>> \/ RepoSkipped(issues_map)
                    THEN "summary" ELSE "enter"
    /\ UNCHANGED <<issues_map, issue_state, issue_labels, sub_answers, show_parent_child,
                   output_report, token, GithubConnection_gh, runs, first_md, hierarchy,
                   report_entry>>
    /\ UNCHANGED <<call_token, report_gh, report_issues, parent_issues_to_add,
                   report_parent_issues, standalone_issues, first_end>>
    /\ UNCHANGED <<resolveVars, metricsVars, callVars, productsVars, themeVars, fnVars,
                   mainVars, labelVars>>

\* a report function called by itself, lines 130-132 and 196-198: with the
\* connection of the caller and a file of the caller, new or the one of the call
\* before
ProcDirectCall ==
    /\ report_entry = "report_function"
    /\ report_pc = "call"
    /\ report_gh' = login(token)
    /\ \E same_file \in BOOLEAN : md_file' = IF same_file THEN md_file ELSE <<>>
    /\ run_calls' = <<>>
    /\ runs' = runs + 1
    /\ report_pc' = "enter"
    /\ UNCHANGED <<issues_map, issue_state, issue_labels, sub_answers, show_parent_child,
                   output_report, token, GithubConnection_gh, first_md, hierarchy,
                   report_entry>>
    /\ UNCHANGED <<call_token, report_issues, parent_issues_to_add, report_parent_issues,
                   standalone_issues, first_end>>
    /\ UNCHANGED <<resolveVars, metricsVars, callVars, productsVars, themeVars, fnVars,
                   mainVars, labelVars>>

\* convert_issues_to_known_bugs_report, lines 144-155: nothing without a bug;
\* else the header, the line, and bugs_list
ProcKnownBugsEnter ==
    /\ report_pc = "enter"
    /\ output_report = "known_bugs"
    /\ IF KnownBugsSkipped(issues_map)
       THEN /\ report_pc' = AfterReport
            /\ UNCHANGED <<md_file, run_calls, report_issues>>
       ELSE /\ Written(<<MdHeader(2, REPO_NAME), MdLine("known bugs")>>)
            /\ report_issues' = BugsList(issues_map)
            /\ report_pc' = "locals"
    /\ UNCHANGED <<issues_map, issue_state, issue_labels, sub_answers, show_parent_child,
                   output_report, token, GithubConnection_gh, runs, first_md, hierarchy,
                   report_entry>>
    /\ UNCHANGED <<call_token, report_gh, parent_issues_to_add, report_parent_issues,
                   standalone_issues, first_end>>
    /\ UNCHANGED <<resolveVars, metricsVars, callVars, productsVars, themeVars, fnVars,
                   mainVars, labelVars>>

\* convert_issues_to_planning_report, lines 213-220: nothing without an issue;
\* else the header, and all_issues = []
ProcPlanningEnter ==
    /\ report_pc = "enter"
    /\ output_report = "planning"
    /\ IF Len(AllIssues(issues_map)) = 0
       THEN /\ report_pc' = AfterReport
            /\ UNCHANGED <<md_file, run_calls, report_issues>>
       ELSE /\ Written(<<MdHeader(2, REPO_NAME)>>)
            /\ report_issues' = <<>>
            /\ report_pc' = "combine"
    /\ UNCHANGED <<issues_map, issue_state, issue_labels, sub_answers, show_parent_child,
                   output_report, token, GithubConnection_gh, runs, first_md, hierarchy,
                   report_entry>>
    /\ UNCHANGED <<call_token, report_gh, parent_issues_to_add, report_parent_issues,
                   standalone_issues, first_end>>
    /\ UNCHANGED <<resolveVars, metricsVars, callVars, productsVars, themeVars, fnVars,
                   mainVars, labelVars>>

\* lines 221-225: all_issues.extend(issues) for the list of every type
ProcPlanningCombine ==
    /\ report_pc = "combine"
    /\ report_issues' = report_issues \o AllIssues(issues_map)
    /\ report_pc' = IF Len(report_issues') = 0 THEN AfterReport ELSE "locals"
    /\ UNCHANGED <<issues_map, issue_state, issue_labels, sub_answers, show_parent_child,
                   output_report, token, GithubConnection_gh, runs, md_file, first_md,
                   hierarchy, report_entry>>
    /\ UNCHANGED <<call_token, report_gh, parent_issues_to_add, report_parent_issues,
                   standalone_issues, run_calls, first_end>>
    /\ UNCHANGED <<resolveVars, metricsVars, callVars, productsVars, themeVars, fnVars,
                   mainVars, labelVars>>

\* lines 157-160 and 228-232: parent_to_children = {}, child_issue_nums = set()
\* and, in the planning report, parent_issues_to_add = {}; then
\* `if show_parent_child and gh and org:`
ProcReportLocals ==
    /\ report_pc = "locals"
    /\ hierarchy' = EmptyAcc
    /\ parent_issues_to_add' = IF output_report = "planning" THEN <<>>
                               ELSE parent_issues_to_add
    /\ report_pc' = IF GroupingRequested(show_parent_child, report_gh, DEFAULT_GITHUB_ORG)
                    THEN "build"
                    ELSE IF output_report = "planning" THEN "separate" ELSE "table"
    /\ UNCHANGED <<issues_map, issue_state, issue_labels, sub_answers, show_parent_child,
                   output_report, token, GithubConnection_gh, runs, md_file, first_md,
                   report_entry>>
    /\ UNCHANGED <<call_token, report_gh, report_issues, report_parent_issues,
                   standalone_issues, run_calls, first_end>>
    /\ UNCHANGED <<resolveVars, metricsVars, callVars, productsVars, themeVars, fnVars,
                   mainVars, labelVars>>

\* build_parent_child_map, lines 85-90: the call is entered with the list of the
\* report and fetch_parents left at False
ProcBuildEnter ==
    /\ report_pc = "build"
    /\ issues_list' = report_issues
    /\ fetch_parents' = FALSE
    /\ pc' = "first_pass"
    /\ idx' = 1
    /\ parent_to_children' = EmptyAcc.p2c
    /\ child_issues' = EmptyAcc.child
    /\ fetched_parents' = EmptyAcc.fetched
    /\ forward_map' = <<>>
    /\ fetched_nothing' = TRUE
    /\ fetch_log' = <<>>
    /\ report_pc' = "first_pass"
    /\ UNCHANGED <<issues_map, issue_state, issue_labels, sub_answers, show_parent_child,
                   output_report, token, GithubConnection_gh, runs, md_file, first_md,
                   hierarchy, report_entry>>
    /\ UNCHANGED procVars
    /\ UNCHANGED <<metricsVars, callVars, productsVars, themeVars, fnVars, mainVars,
                   labelVars>>

\* lines 93-104: one iteration of the first pass, the tracker answering the fetch;
\* an exception leaves build_parent_child_map and the report
ProcFirstPassStep ==
    /\ report_pc = "first_pass"
    /\ idx <= Len(issues_list)
    /\ LET resp == sub_answers[issues_list[idx]]
           acc == SubIssuesIteration(CurrentAcc, IssueMapKeys(issues_list),
                                     issues_list[idx], resp)
       IN /\ parent_to_children' = acc.p2c
          /\ child_issues' = acc.child
          /\ pc' = IF acc.raised THEN "raised" ELSE pc
          /\ idx' = IF acc.raised THEN idx ELSE idx + 1
          /\ fetched_nothing' = (fetched_nothing /\ get_sub_issues(resp) = JList(<<>>))
          /\ report_pc' = IF acc.raised THEN "raised" ELSE report_pc
    /\ fetch_log' = Append(fetch_log, Fetch("sub", issues_list[idx]))
    /\ UNCHANGED <<issues_list, fetch_parents, fetched_parents, forward_map>>
    /\ UNCHANGED <<issues_map, issue_state, issue_labels, sub_answers, show_parent_child,
                   output_report, token, GithubConnection_gh, runs, md_file, first_md,
                   hierarchy, report_entry>>
    /\ UNCHANGED procVars
    /\ UNCHANGED <<metricsVars, callVars, productsVars, themeVars, fnVars, mainVars,
                   labelVars>>

\* lines 106-107 and 127, then lines 160 and 233: the loop is over, no second
\* pass; the report takes parent_to_children and child_issue_nums from what the
\* call returns
ProcBuildReturn ==
    /\ report_pc = "first_pass"
    /\ idx > Len(issues_list)
    /\ forward_map' = parent_to_children
    /\ pc' = "done"
    /\ hierarchy' = CurrentAcc
    /\ report_pc' = IF output_report = "planning" THEN "to_add" ELSE "table"
    /\ UNCHANGED <<issues_list, fetch_parents, idx, parent_to_children, child_issues,
                   fetched_parents, fetched_nothing, fetch_log>>
    /\ UNCHANGED <<issues_map, issue_state, issue_labels, sub_answers, show_parent_child,
                   output_report, token, GithubConnection_gh, runs, md_file, first_md,
                   report_entry>>
    /\ UNCHANGED procVars
    /\ UNCHANGED <<metricsVars, callVars, productsVars, themeVars, fnVars, mainVars,
                   labelVars>>

\* lines 235-247: the open parents of the list with a closed child are put into
\* parent_issues_to_add
ProcParentsToAdd ==
    /\ report_pc = "to_add"
    /\ parent_issues_to_add' =
          parent_issues_to_add \o ParentIssuesToAdd(hierarchy.p2c, report_issues, issue_state)
    /\ report_pc' = "separate"
    /\ UNCHANGED <<issues_map, issue_state, issue_labels, sub_answers, show_parent_child,
                   output_report, token, GithubConnection_gh, runs, md_file, first_md,
                   hierarchy, report_entry>>
    /\ UNCHANGED <<call_token, report_gh, report_issues, report_parent_issues,
                   standalone_issues, run_calls, first_end>>
    /\ UNCHANGED <<resolveVars, metricsVars, callVars, productsVars, themeVars, fnVars,
                   mainVars, labelVars>>

\* lines 249-259: parent_issues and standalone_issues, from all_issues
ProcSeparate ==
    /\ report_pc = "separate"
    /\ report_parent_issues' = ParentIssues(report_issues, hierarchy)
    /\ standalone_issues' = StandaloneIssues(report_issues, hierarchy)
    /\ report_pc' = "parents"
    /\ UNCHANGED <<issues_map, issue_state, issue_labels, sub_answers, show_parent_child,
                   output_report, token, GithubConnection_gh, runs, md_file, first_md,
                   hierarchy, report_entry>>
    /\ UNCHANGED <<call_token, report_gh, report_issues, parent_issues_to_add, run_calls,
                   first_end>>
    /\ UNCHANGED <<resolveVars, metricsVars, callVars, productsVars, themeVars, fnVars,
                   mainVars, labelVars>>

\* lines 262-339: the "Parent Issues" section, if there is a parent
ProcParentSection ==
    /\ report_pc = "parents"
    /\ IF report_parent_issues # <<>> \/ parent_issues_to_add # <<>>
       THEN Written(<<MdHeader(3, "Parent Issues"), MdLine(""),
                      MdTable(5, PlanningHead,
                              InProgressRows(parent_issues_to_add, report_issues, hierarchy,
                                             issue_state, issue_labels)
                                \o RemainingParentRows(report_parent_issues,
                                                       parent_issues_to_add, report_issues,
                                                       hierarchy, issue_state,
                                                       issue_labels))>>)
       ELSE UNCHANGED <<md_file, run_calls>>
    /\ report_pc' = "others"
    /\ UNCHANGED <<issues_map, issue_state, issue_labels, sub_answers, show_parent_child,
                   output_report, token, GithubConnection_gh, runs, first_md, hierarchy,
                   report_entry>>
    /\ UNCHANGED <<call_token, report_gh, report_issues, parent_issues_to_add,
                   report_parent_issues, standalone_issues, first_end>>
    /\ UNCHANGED <<resolveVars, metricsVars, callVars, productsVars, themeVars, fnVars,
                   mainVars, labelVars>>

\* lines 341-361: the "Other Issues" section, if an issue stands alone; the
\* function returns
ProcOtherSection ==
    /\ report_pc = "others"
    /\ IF standalone_issues # <<>>
       THEN Written(<<MdHeader(3, "Other Issues"), MdLine(""),
                      MdTable(5, PlanningHead,
                              StandaloneRows(standalone_issues, issue_state,
                                             issue_labels))>>)
       ELSE UNCHANGED <<md_file, run_calls>>
    /\ report_pc' = AfterReport
    /\ UNCHANGED <<issues_map, issue_state, issue_labels, sub_answers, show_parent_child,
                   output_report, token, GithubConnection_gh, runs, first_md, hierarchy,
                   report_entry>>
    /\ UNCHANGED <<call_token, report_gh, report_issues, parent_issues_to_add,
                   report_parent_issues, standalone_issues, first_end>>
    /\ UNCHANGED <<resolveVars, metricsVars, callVars, productsVars, themeVars, fnVars,
                   mainVars, labelVars>>

\* lines 163-193: the table of the known bugs; the function returns
ProcKnownBugsTable ==
    /\ report_pc = "table"
    /\ Written(<<MdLine(""),
                 MdTable(3, <<"Issue", "Severity", "Status">>,
                         KnownBugsRows(report_issues, hierarchy, issue_state,
                                       issue_labels))>>)
    /\ report_pc' = AfterReport
    /\ UNCHANGED <<issues_map, issue_state, issue_labels, sub_answers, show_parent_child,
                   output_report, token, GithubConnection_gh, runs, first_md, hierarchy,
                   report_entry>>
    /\ UNCHANGED <<call_token, report_gh, report_issues, parent_issues_to_add,
                   report_parent_issues, standalone_issues, first_end>>
    /\ UNCHANGED <<resolveVars, metricsVars, callVars, productsVars, themeVars, fnVars,
                   mainVars, labelVars>>

\* create_md_issue_report, lines 411-425 and 498-608: the metrics of the search,
\* the summary and the save; the call returns
ProcSummary ==
    /\ report_pc = "summary"
    /\ Written(SummaryMetrics(SearchResult(issues_map)))
    /\ report_pc' = "returned"
    /\ UNCHANGED <<issues_map, issue_state, issue_labels, sub_answers, show_parent_child,
                   output_report, token, GithubConnection_gh, runs, first_md, hierarchy,
                   report_entry>>
    /\ UNCHANGED <<call_token, report_gh, report_issues, parent_issues_to_add,
                   report_parent_issues, standalone_issues, first_end>>
    /\ UNCHANGED <<resolveVars, metricsVars, callVars, productsVars, themeVars, fnVars,
                   mainVars, labelVars>>

\* the first call has ended, returned or raised; the process makes the call again,
\* on the same issue map and against the same tracker
ProcCallAgain ==
    /\ report_pc \in {"returned", "raised"}
    /\ runs = 1
    /\ first_md' = run_calls
    /\ first_end' = report_pc
    /\ report_pc' = "call"
    /\ UNCHANGED <<issues_map, issue_state, issue_labels, sub_answers, show_parent_child,
                   output_report, token, GithubConnection_gh, runs, md_file, hierarchy,
                   report_entry>>
    /\ UNCHANGED <<call_token, report_gh, report_issues, parent_issues_to_add,
                   report_parent_issues, standalone_issues, run_calls>>
    /\ UNCHANGED <<resolveVars, metricsVars, callVars, productsVars, themeVars, fnVars,
                   mainVars, labelVars>>

ProcNext ==
    \/ ProcGetConnection
    \/ ProcSearch
    \/ ProcDirectCall
    \/ ProcKnownBugsEnter
    \/ ProcPlanningEnter
    \/ ProcPlanningCombine
    \/ ProcReportLocals
    \/ ProcBuildEnter
    \/ ProcFirstPassStep
    \/ ProcBuildReturn
    \/ ProcParentsToAdd
    \/ ProcSeparate
    \/ ProcParentSection
    \/ ProcOtherSection
    \/ ProcKnownBugsTable
    \/ ProcSummary
    \/ ProcCallAgain

\* no such process
ProcIdle ==
    /\ call_token = ""
    /\ report_gh = NoConnection
    /\ report_issues = <<>>
    /\ parent_issues_to_add = <<>>
    /\ report_parent_issues = <<>>
    /\ standalone_issues = <<>>
    /\ run_calls = <<>>
    /\ first_end = ""

(***************************************************************************)
(* Specifications.                                                         *)
(***************************************************************************)
\* one call of build_parent_child_map
Init == ResolveInit /\ ReportIdle /\ MetricsIdle /\ CallIdle /\ ProductsIdle
    /\ ThemeIdle /\ FnIdle /\ MainIdle /\ LabelIdle /\ ProcIdle
Next == ResolveNext
Spec == Init /\ [][Next]_vars

\* the report of one repository, run twice
InitReport == ReportInit /\ ResolveIdle /\ MetricsIdle /\ CallIdle /\ ProductsIdle
    /\ ThemeIdle /\ FnIdle /\ MainIdle /\ LabelIdle /\ ProcIdle
NextReport == ReportNext
SpecReport == InitReport /\ [][NextReport]_vars

\* the metrics of one run of create_md_issue_report
InitMetrics == MetricsInit /\ ResolveIdle /\ ReportIdle /\ CallIdle /\ ProductsIdle
    /\ ThemeIdle /\ FnIdle /\ MainIdle /\ LabelIdle /\ ProcIdle
NextMetrics == MetricsNext
SpecMetrics == InitMetrics /\ [][NextMetrics]_vars

\* one call of build_parent_child_map against fixed answers
InitCall == CallInit /\ ResolveIdle /\ ReportIdle /\ MetricsIdle /\ ProductsIdle
    /\ ThemeIdle /\ FnIdle /\ MainIdle /\ LabelIdle /\ ProcIdle
NextCall == CallNext
SpecCall == InitCall /\ [][NextCall]_vars

\* one call of build_repo_to_product_map
InitProducts == ProductsInit /\ ResolveIdle /\ ReportIdle /\ MetricsIdle /\ CallIdle
    /\ ThemeIdle /\ FnIdle /\ MainIdle /\ LabelIdle /\ ProcIdle
NextProducts == ProductsNext
SpecProducts == InitProducts /\ [][NextProducts]_vars

\* create_release_theme over one row, called again by a second run of the tool
InitTheme ==
    ThemeInit /\ ResolveIdle /\ ReportIdle /\ MetricsIdle /\ CallIdle /\ ProductsIdle
        /\ FnIdle /\ MainIdle /\ LabelIdle /\ ProcIdle
NextTheme == ThemeNext
SpecTheme == InitTheme /\ [][NextTheme]_vars

\* one call of ensure_label_exists or of check_issue_exists
InitFn ==
    FnInit /\ ResolveIdle /\ ReportIdle /\ MetricsIdle /\ CallIdle /\ ProductsIdle
        /\ ThemeIdle /\ MainIdle /\ LabelIdle /\ ProcIdle
NextFn == FnNext
SpecFn == InitFn /\ [][NextFn]_vars

\* one run of main over the rows of a CSV file
InitMain ==
    MainInit /\ ResolveIdle /\ ReportIdle /\ MetricsIdle /\ CallIdle /\ ProductsIdle
        /\ FnIdle /\ LabelIdle /\ ProcIdle
NextMain == MainNext
SpecMain == InitMain /\ [][NextMain]_vars

\* one run of add_version_label_to_open_bugs, or one call of its function
InitLabel ==
    LabelInit /\ ResolveIdle /\ MetricsIdle /\ CallIdle /\ ProductsIdle /\ ThemeIdle
        /\ FnIdle /\ MainIdle /\ ProcIdle
NextLabel == LabelNext
SpecLabel == InitLabel /\ [][NextLabel]_vars

\* a process that makes the same report call twice
InitProcess ==
    ProcInit /\ MetricsIdle /\ CallIdle /\ ProductsIdle /\ ThemeIdle /\ FnIdle
        /\ MainIdle /\ LabelIdle
NextProcess == ProcNext
SpecProcess == InitProcess /\ [][NextProcess]_vars

(***************************************************************************)
(* Properties of build_parent_child_map.                                   *)
(***************************************************************************)
\* how many times x occurs in the sequence s
CountIn(s, x) == Cardinality({j \in 1..Len(s) : s[j] = x})

\* how many times x occurs as a child in the whole map
RECURSIVE Occurrences(_, _)
Occurrences(map, x) ==
    IF map = <<>> THEN 0 ELSE CountIn(Head(map).v, x) + Occurrences(Tail(map), x)

\* every number that occurs as a child in the map
MapChildren(map) == UNION {SeqToSet(map[j].v) : j \in 1..Len(map)}

\* C1: once the call has returned, every number of every child sequence of
\* parent_to_children is a member of child_issues.
C1_ChildrenContained ==
    pc = "done" => MapChildren(parent_to_children) \subseteq child_issues

\* C1 witness: a call with fetch_parents that returned a map with a child linked
\* by the first pass under a parent of the list and a child linked by the second
\* pass under a fetched parent.
C1_Witness ==
    /\ pc = "done"
    /\ fetch_parents
    /\ \E j \in 1..Len(forward_map) :
          /\ forward_map[j].k \in IssueMapKeys(issues_list)
          /\ forward_map[j].v # <<>>
    /\ \E j \in 1..Len(parent_to_children) :
          /\ parent_to_children[j].k \in DictKeys(fetched_parents)
          /\ parent_to_children[j].k \notin IssueMapKeys(issues_list)
          /\ parent_to_children[j].v # <<>>

\* C2: in the returned map no number is its own child: P is not in map[P].
C2_NoSelfChild ==
    pc = "done" =>
        \A j \in 1..Len(parent_to_children) :
            parent_to_children[j].k \notin SeqToSet(parent_to_children[j].v)

\* C3: with fetch_parents, the second pass never duplicates a child the first
\* pass linked: such a child occurs in the final map as often as the first pass
\* left it (once when the first pass linked it once).
C3_NoBackwardDuplicate ==
    (pc = "done" /\ fetch_parents) =>
        \A c \in MapChildren(forward_map) :
            Occurrences(parent_to_children, c) = Occurrences(forward_map, c)

\* C6: no outcome of a fetch aborts the call: whatever a fetch answers (an
\* exception, a status other than 200, a body that is no JSON, a 200 payload with
\* missing fields or of another shape), build_parent_child_map still returns: it
\* never leaves by an exception.
C6_NeverAborts == pc # "raised"

\* C7: when every sub-issue fetch answered [] and every parent fetch None, the
\* call returns an empty map, an empty child set and no fetched parent.
C7_NothingFetchedNothingLinked ==
    (pc = "done" /\ fetched_nothing) =>
        /\ parent_to_children = <<>>
        /\ child_issues = {}
        /\ fetched_parents = <<>>

\* C7 witness: a call over a full-length list, with fetch_parents, whose fetches
\* all answered nothing, has returned.
C7_Witness ==
    /\ pc = "done"
    /\ fetched_nothing
    /\ fetch_parents
    /\ Len(issues_list) = MaxIssues

(***************************************************************************)
(* Properties of the reports.                                              *)
(***************************************************************************)
\* the tables of an MdUtils file, and the rows of all its tables
\* the calls the report function made: those before the summary of the run, which
\* is the last six calls of a run that saved its file
ReportCalls(md) ==
    IF md # <<>> /\ md[Len(md)].op = "create_md_file" THEN SubSeq(md, 1, Len(md) - 6)
    ELSE md

\* the tables of issues of a report
Tables(md) == SelectSeq(ReportCalls(md), LAMBDA e : e.op = "table")
AllRows(md) == Concat([j \in 1..Len(Tables(md)) |-> Tables(md)[j].rows])

\* the rows of md that show the issue n
RowsOf(md, n) == SelectSeq(AllRows(md), LAMBDA r : r[1].number = n)

\* the planning report ran with grouping on a lone open parent p whose children
\* are a, closed, and b, open
OpenParentScenario(p, a, b) ==
    /\ output_report = "planning"
    /\ report_pc = "returned"
    /\ show_parent_child
    /\ hierarchy.p2c = <<[k |-> p, v |-> <<a, b>>]>>
    /\ issue_state[p] = "open"
    /\ issue_state[a] = "closed"
    /\ issue_state[b] = "open"

\* C4: planning view, open parent p with children a (closed) and b (open): the row
\* of p shows "in progress", the closed child a is the only row nested under it,
\* and the open child b appears in the report exactly once, as a nested row.
C4_OpenChildShownOnce ==
    \A p, a, b \in IssueNums :
        OpenParentScenario(p, a, b) =>
            LET rows == AllRows(md_file) IN
            /\ Len(RowsOf(md_file, p)) = 1
            /\ RowsOf(md_file, p)[1][4] = "in progress"
            /\ ~RowsOf(md_file, p)[1][1].indent
            /\ Len(RowsOf(md_file, a)) = 1
            /\ RowsOf(md_file, a)[1][1].indent
            /\ Len(RowsOf(md_file, b)) = 1
            /\ RowsOf(md_file, b)[1][1].indent

\* the On Deck cell of a row of table tb: the cell under the "On Deck" header,
\* "absent" when the table has no such column
OnDeckCell(tb, row) ==
    IF \E c \in 1..Len(tb.head) : tb.head[c] = "On Deck"
    THEN row[CHOOSE c \in 1..Len(tb.head) : tb.head[c] = "On Deck"]
    ELSE "absent"

\* the priority (or severity) cell of a row of table tb
PriorityCell(tb, row) ==
    row[CHOOSE c \in 1..Len(tb.head) :
            tb.head[c] \in {"Severity", "Priority / Bug Severity"}]

OnDeckRule(tb, row) ==
    OnDeckCell(tb, row) =
        (IF PriorityCell(tb, row) \in {"p.must-have", "s.high", "s.critical"}
         THEN "X" ELSE "")

\* C8 as claimed: in every table of a report, the known-bugs table included, the
\* on-deck cell of every row is "X" when the priority of the row is p.must-have,
\* s.high or s.critical and "" otherwise.
C8_OnDeckEveryTable ==
    \A j \in 1..Len(Tables(md_file)) :
        LET tb == Tables(md_file)[j] IN
        \A r \in 1..Len(tb.rows) : OnDeckRule(tb, tb.rows[r])

\* C8 amended: the rule holds for every row, parent or child, of both planning
\* tables; the known-bugs table has three columns, none of them an on-deck
\* cell.
C8_OnDeckPlanningTables ==
    \A j \in 1..Len(Tables(md_file)) :
        LET tb == Tables(md_file)[j] IN
        IF output_report = "planning"
        THEN \A r \in 1..Len(tb.rows) :
                 Len(tb.rows[r]) = 5 /\ OnDeckRule(tb, tb.rows[r])
        ELSE \A r \in 1..Len(tb.rows) :
                 Len(tb.rows[r]) = 3 /\ OnDeckCell(tb, tb.rows[r]) = "absent"

\* C8 witness: a planning report with both tables, a child row, a row marked "X"
\* and a row left unmarked.
C8_Witness ==
    /\ output_report = "planning"
    /\ report_pc = "returned"
    /\ Len(Tables(md_file)) = 2
    /\ \E r \in 1..Len(AllRows(md_file)) : AllRows(md_file)[r][1].indent
    /\ \E r \in 1..Len(AllRows(md_file)) : AllRows(md_file)[r][5] = "X"
    /\ \E r \in 1..Len(AllRows(md_file)) : AllRows(md_file)[r][5] = ""

\* C9: the known-bugs report of a repository whose bug list is empty, or whose
\* map has no "bug" key, writes nothing: no header, no line, no table.
C9_NoBugsNoSection ==
    (/\ output_report = "known_bugs"
     /\ report_pc = "returned"
     /\ \A j \in 1..Len(issues_map) : issues_map[j].k = "bug" => issues_map[j].v = <<>>)
        => ReportCalls(md_file) = <<>>

\* C9 witness: a known-bugs run with grouping on, over a map that has issues of
\* another type and an empty bug list.
C9_Witness ==
    /\ output_report = "known_bugs"
    /\ report_pc = "returned"
    /\ show_parent_child
    /\ \E j \in 1..Len(issues_map) : issues_map[j].k = "bug" /\ issues_map[j].v = <<>>
    /\ \E j \in 1..Len(issues_map) : issues_map[j].k = "task" /\ issues_map[j].v # <<>>

\* C10: the second run of a report in the same process, on the same issue map
\* and the same fetch answers, makes on its file exactly the calls that the first
\* run made, in that order, and ends as the first run ended; what the first run
\* left behind (the kept connection, the file, the values of its locals) changes
\* nothing, and the second call does not exit for want of a token.
C10_SecondRunIdentical ==
    /\ runs = 2 => (report_pc # "exit" /\ IsPrefix(run_calls, first_md))
    /\ (runs = 2 /\ report_pc \in {"returned", "raised"})
          => (run_calls = first_md /\ report_pc = first_end)

\* C10 witness: create_md_issue_report has returned a second time; the second
\* call was made without a token, on the connection kept by the first, and the
\* report groups a child under its parent.
C10_Witness ==
    /\ report_entry = "create_md_issue_report"
    /\ runs = 2
    /\ report_pc = "returned"
    /\ call_token = ""
    /\ GithubConnection_gh = login("token")
    /\ show_parent_child
    /\ hierarchy.p2c # <<>>
    /\ \E r \in 1..Len(AllRows(run_calls)) : AllRows(run_calls)[r][1].indent

(***************************************************************************)
(* Properties of the metrics.                                              *)
(***************************************************************************)
\* the number of issues of every repository of the run, added up
RECURSIVE SumOfRepoCounts(_)
SumOfRepoCounts(repos) ==
    IF repos = <<>> THEN 0
    ELSE Len(AllIssues(Head(repos).v)) + SumOfRepoCounts(Tail(repos))

\* the cell of the grand total: the last cell of the last row of the table
GrandTotalCell(tb) == tb.rows[Len(tb.rows)][7]

\* C5: the grand total printed in the summary table is the sum over the
\* repositories of the number of issues of the repository, in the table by
\* repository and in the table by component, whatever the mapping.
C5_GrandTotalIsSum ==
    metrics_pc = "done" =>
        GrandTotalCell(summary_table[1]) = Bold(SumOfRepoCounts(all_repos_issues))

\* C5 witness: a run grouped by component has written its table: one
\* repository counted under its product, another, unmapped, under "Other", both
\* with issues.
C5_Witness ==
    /\ metrics_pc = "done"
    /\ group_by_component
    /\ Len(all_repos_issues) = 2
    /\ \A j \in 1..2 : Len(AllIssues(all_repos_issues[j].v)) > 0
    /\ summary_table[1].head[1] = "Component"
    /\ {summary_table[1].rows[j][1] : j \in 1..Len(summary_table[1].rows)}
          = {"Other", "comp-a", "**TOTAL**"}

(***************************************************************************)
(* Properties of the two passes, against fixed answers.                    *)
(***************************************************************************)
\* the numbers a sub-issue answer lists, in the order of the answer
AnsweredNumbers(resp) ==
    IF resp.kind = "json"
    THEN [j \in 1..Len(resp.body.v) |-> resp.body.v[j].number.v]
    ELSE <<>>

\* those of them that are numbers of issues of the list
AnsweredInList(resp) ==
    SelectSeq(AnsweredNumbers(resp), LAMBDA n : n \in SeqToSet(call_issues))

\* C11: after the forward pass, for every issue P of the list, map[P] is the
\* subsequence, in the order of the answer, of the numbers the sub-issue fetch of
\* P answered that are numbers of issues of the list; P is a key only when that
\* subsequence is not empty; no other number is a key, and no parent is recorded
\* as fetched.
C11_ForwardPassExact ==
    call_pc \in {"forward_done", "returned"} =>
        /\ \A P \in SeqToSet(call_issues) :
              LET kids == AnsweredInList(call_sub_answers[P]) IN
              IF kids # <<>>
              THEN /\ P \in DictKeys(call_forward.p2c)
                   /\ DictGet(call_forward.p2c, P) = kids
              ELSE P \notin DictKeys(call_forward.p2c)
        /\ DictKeys(call_forward.p2c) \subseteq SeqToSet(call_issues)
        /\ call_forward.fetched = <<>>
        /\ ~call_forward.raised

\* C11 witness: the forward pass is over; an issue answered two sub-issues of
\* the list, the larger number first, and a sub-issue outside the list; another
\* issue answered only a sub-issue outside the list.
C11_Witness ==
    /\ call_pc = "forward_done"
    /\ \E P \in SeqToSet(call_issues) :
          /\ AnsweredInList(call_sub_answers[P]) = <<2, 1>>
          /\ DictGet(call_forward.p2c, P) = <<2, 1>>
    /\ \E P \in SeqToSet(call_issues) :
          /\ AnsweredNumbers(call_sub_answers[P]) # <<>>
          /\ AnsweredInList(call_sub_answers[P]) = <<>>

\* the parent the parent fetch of C answers, 0 without one
AnsweredParent(C) ==
    IF call_parent_answers[C].kind = "json" THEN call_parent_answers[C].body.number.v
    ELSE 0

\* the issues of the list the backward pass links to the parent Q: those that are
\* no key of the map and whose parent fetch answers Q, Q outside the list
LinkedTo(Q) ==
    SelectSeq(call_issues,
              LAMBDA C : /\ C \notin DictKeys(call_forward.p2c)
                         /\ AnsweredParent(C) = Q
                         /\ Q # 0
                         /\ Q \notin SeqToSet(call_issues))

\* C12: backward pass, for every issue C that is no key of the map: when its
\* parent fetch answers a parent Q outside the list, Q is in fetched_parents, C
\* (not Q) is in the child set and C is appended to map[Q]; when the parent is in
\* the list (or there is none) C changes nothing: the entries of the forward
\* pass stay as they were, and the child set and fetched_parents grow by nothing
\* else.
C12_BackwardPassExact ==
    (call_pc = "returned" /\ call_fetch_parents) =>
        LET outside == (ResolveNums \cup ExternalNums) \ SeqToSet(call_issues)
            linked == UNION {SeqToSet(LinkedTo(Q)) : Q \in outside}
        IN /\ \A Q \in outside :
                 IF LinkedTo(Q) # <<>>
                 THEN /\ Q \in DictKeys(call_result.fetched)
                      /\ Q \in DictKeys(call_result.p2c)
                      /\ DictGet(call_result.p2c, Q) = LinkedTo(Q)
                 ELSE /\ Q \notin DictKeys(call_result.fetched)
                      /\ Q \notin DictKeys(call_result.p2c)
           /\ SubSeq(call_result.p2c, 1, Len(call_forward.p2c)) = call_forward.p2c
           /\ DictKeys(call_result.fetched) \cap SeqToSet(call_issues) = {}
           /\ call_result.child = call_forward.child \cup linked

\* C12 witness: the call returned with fetch_parents; the backward pass linked
\* two issues of the list, one after the other, to the same parent outside the
\* list.
C12_Witness ==
    /\ call_pc = "returned"
    /\ call_fetch_parents
    /\ \E Q \in ExternalNums : Len(LinkedTo(Q)) = 2
    /\ DictKeys(call_result.fetched) # {}

(***************************************************************************)
(* Properties of build_repo_to_product_map.                                *)
(***************************************************************************)
\* the products of the configuration, in its order ([] without any)
ConfiguredProducts == products_config.products

\* the product at position j lists the repository and is not flagged ignore
ListsRepo(j, repo) ==
    LET info == ConfiguredProducts[j].v
    IN info.body /\ ~info.ignore /\ repo \in SeqToSet(info.repositories)

\* C13: build_repo_to_product_map returns a map for every configuration (a
\* missing one, a product without a body); its keys are the repositories listed
\* under at least one product not flagged ignore, each mapped to the name and the
\* info of the last such product in the order of the configuration.
C13_RepoMapOfLastProduct ==
    products_pc # "entered" =>
        /\ products_pc = "returned"
        /\ DictKeys(repo_map) =
              {repo \in RepoNames : \E j \in 1..Len(ConfiguredProducts) : ListsRepo(j, repo)}
        /\ \A repo \in DictKeys(repo_map) :
              LET last == CHOOSE j \in 1..Len(ConfiguredProducts) :
                              /\ ListsRepo(j, repo)
                              /\ \A i \in (j + 1)..Len(ConfiguredProducts) : ~ListsRepo(i, repo)
              IN DictGet(repo_map, repo) = [name |-> ConfiguredProducts[last].k,
                                            info |-> ConfiguredProducts[last].v]

(***************************************************************************)
(* Properties of the layout of the reports.                                *)
(***************************************************************************)
\* the first cells (indent, number) of the rows of a table
LinkCells(tb) == [j \in 1..Len(tb.rows) |-> tb.rows[j][1]]

\* the bugs of the run, and those that are no child
RunBugs == BugsList(issues_map)
TopLevelBugs == SelectSeq(RunBugs, LAMBDA n : n \notin hierarchy.child)

\* what the claim expects under the top-level bug b: one indented row per child
\* of b in the map, in map order, for the children found in the bug list
ExpectedUnderBug(b) ==
    IF b \in DictKeys(hierarchy.p2c)
    THEN LET found == SelectSeq(DictGet(hierarchy.p2c, b),
                                LAMBDA c : c \in SeqToSet(RunBugs))
         IN [j \in 1..Len(found) |-> LinkCell(TRUE, found[j])]
    ELSE <<>>

\* C14: known-bugs view with a bug list that is not empty: the top-level rows
\* are the bugs that are not in the child set, in the order of the bug list; each
\* is followed at once by one indented row per child of it in the map, in map
\* order, for the children found in the bug list; nothing else is in the table.
C14_KnownBugsLayout ==
    (output_report = "known_bugs" /\ report_pc = "returned" /\ RunBugs # <<>>) =>
        /\ Len(Tables(md_file)) = 1
        /\ LinkCells(Tables(md_file)[1]) =
              Concat([j \in 1..Len(TopLevelBugs) |->
                         <<LinkCell(FALSE, TopLevelBugs[j])>>
                           \o ExpectedUnderBug(TopLevelBugs[j])])

\* C14 witness: a known-bugs table over three bugs with grouping: two top-level
\* bugs, one of them followed at once by the indented row of its child.
C14_Witness ==
    /\ output_report = "known_bugs"
    /\ report_pc = "returned"
    /\ Len(RunBugs) = 3
    /\ Len(TopLevelBugs) = 2
    /\ hierarchy.child # {}
    /\ \E j \in 1..2 : LinkCells(Tables(md_file)[1])[j + 1].indent
                        /\ ~LinkCells(Tables(md_file)[1])[j].indent

\* the issue n is open and some child of it in the map, looked up in the combined
\* list, is closed
OpenWithClosedChild(n) ==
    /\ issue_state[n] = "open"
    /\ \E j \in 1..Len(DictGet(hierarchy.p2c, n)) :
          LET c == DictGet(hierarchy.p2c, n)[j]
          IN c \in SeqToSet(AllIssues(issues_map)) /\ issue_state[c] = "closed"

\* the status a row of the planning view is to show
ExpectedStatus(row) ==
    IF ~row[1].indent /\ row[1].number \in DictKeys(hierarchy.p2c)
       /\ OpenWithClosedChild(row[1].number)
    THEN "in progress"
    ELSE issue_state[row[1].number]

\* C15: in the planning view a top-level parent row shows "in progress" exactly
\* when the parent is open and one of its children is closed; every other row
\* shows the state of its issue; and no step of a report changes the state of an
\* issue.
C15_InProgressStatus ==
    /\ [](output_report = "planning" =>
             \A r \in 1..Len(AllRows(md_file)) :
                 AllRows(md_file)[r][4] = ExpectedStatus(AllRows(md_file)[r]))
    /\ [][issue_state' = issue_state]_vars

\* C15 witness: a planning report with a top-level parent row "in progress", a
\* top-level parent row that shows the state of its issue, and a child row.
C15_Witness ==
    /\ output_report = "planning"
    /\ report_pc = "returned"
    /\ \E r \in 1..Len(AllRows(md_file)) :
          LET row == AllRows(md_file)[r]
          IN ~row[1].indent /\ row[4] = "in progress"
    /\ \E r \in 1..Len(AllRows(md_file)) :
          LET row == AllRows(md_file)[r]
          IN /\ ~row[1].indent
             /\ row[1].number \in DictKeys(hierarchy.p2c)
             /\ row[4] = issue_state[row[1].number]
    /\ \E r \in 1..Len(AllRows(md_file)) : AllRows(md_file)[r][1].indent

\* the rows of a table nested under its top-level row at position j: the indented
\* rows that follow it at once
RECURSIVE NestedAfter(_, _)
NestedAfter(cells, j) ==
    IF j + 1 <= Len(cells) /\ cells[j + 1].indent
    THEN <<cells[j + 1].number>> \o NestedAfter(cells, j + 1)
    ELSE <<>>

\* the issue p is shown nested under a top-level row of a parent of it
ShownUnderItsParent(p) ==
    \E t \in 1..Len(Tables(md_file)) :
        LET cells == LinkCells(Tables(md_file)[t]) IN
        \E j \in 1..Len(cells) :
            /\ ~cells[j].indent
            /\ cells[j].number \in DictKeys(hierarchy.p2c)
            /\ p \in SeqToSet(DictGet(hierarchy.p2c, cells[j].number))
            /\ p \in SeqToSet(NestedAfter(cells, j))

\* C16: planning view: an in-progress parent (open, with a closed child) that is
\* itself a child of another parent has no top-level row, and is shown nested
\* under its own parent: it still appears in the report.
C16_NestedInProgressParent ==
    (output_report = "planning" /\ report_pc = "returned") =>
        \A p \in DictKeys(hierarchy.p2c) \cap hierarchy.child :
            OpenWithClosedChild(p) =>
                /\ \A r \in 1..Len(AllRows(md_file)) :
                       AllRows(md_file)[r][1].number = p => AllRows(md_file)[r][1].indent
                /\ ShownUnderItsParent(p)

\* the list a report works on: the bug list, or the combined list
ReportList ==
    IF output_report = "known_bugs" THEN RunBugs ELSE AllIssues(issues_map)

\* the top-level rows of a table that show a parent (a key of the map)
TopLevelParentRows(tb) ==
    SelectSeq(tb.rows, LAMBDA row : /\ ~row[1].indent
                                    /\ row[1].number \in DictKeys(hierarchy.p2c))

\* the issues of the rows, in the order of the rows
NumbersOf(rows) == [j \in 1..Len(rows) |-> rows[j][1].number]

\* the cell of a row of table tb under the header "Status"
StatusCell(tb, row) == row[CHOOSE c \in 1..Len(tb.head) : tb.head[c] = "Status"]

\* the numbers q come in the order the list has them: q is what is left of the
\* list when some of its entries are taken out (an issue with two type labels is
\* twice in the combined list)
RECURSIVE InListOrder(_, _)
InListOrder(q, list) ==
    IF q = <<>> THEN TRUE
    ELSE IF list = <<>> THEN FALSE
    ELSE IF Head(q) = Head(list) THEN InListOrder(Tail(q), Tail(list))
    ELSE InListOrder(q, Tail(list))

\* C17 as claimed: in every table of a report the parents among the top-level
\* rows come in the order the issue list has them (the bug list, the combined
\* list), not ordered by number or by status.
C17_ParentsInListOrder ==
    report_pc = "returned" =>
        \A t \in 1..Len(Tables(md_file)) :
            InListOrder(NumbersOf(TopLevelParentRows(Tables(md_file)[t])), ReportList)

\* C17 amended: in the known-bugs table the parents among the top-level rows
\* come in the order of the bug list; in a planning table the parents in progress
\* come first, in the order of the combined list, and the other parents follow
\* them, in the order of the combined list.
C17_ParentsInListOrderByStatus ==
    report_pc = "returned" =>
        \A t \in 1..Len(Tables(md_file)) :
            LET tb == Tables(md_file)[t]
                rows == TopLevelParentRows(tb)
                first == SelectSeq(rows, LAMBDA row : StatusCell(tb, row) = "in progress")
                rest == SelectSeq(rows, LAMBDA row : StatusCell(tb, row) # "in progress")
            IN /\ rows = first \o rest
               /\ InListOrder(NumbersOf(first), ReportList)
               /\ InListOrder(NumbersOf(rest), ReportList)
               /\ output_report = "known_bugs" => first = <<>>

\* C17 witness: a planning table whose first top-level row is a parent in
\* progress and whose next top-level row is a parent that comes before it in the
\* combined list.
C17_Witness ==
    /\ output_report = "planning"
    /\ report_pc = "returned"
    /\ Len(Tables(md_file)) >= 1
    /\ LET rows == TopLevelParentRows(Tables(md_file)[1])
       IN /\ Len(rows) = 2
          /\ rows[1][4] = "in progress"
          /\ rows[2][4] # "in progress"
          /\ ~InListOrder(NumbersOf(rows), ReportList)

\* the positions of md that hold the header of the section `title`
SectionHeaders(md, title) ==
    {i \in 1..Len(md) : md[i].op = "header" /\ md[i].level = 3 /\ md[i].title = title}

\* the combined list as the claim describes it: the types in the fixed order, the
\* issues of each type in the order of its list
CombinedByType ==
    Concat([j \in 1..Len(ISSUE_TYPES) |->
               IF ISSUE_TYPES[j] \in DictKeys(issues_map)
               THEN DictGet(issues_map, ISSUE_TYPES[j]) ELSE <<>>])

\* the issues of the combined list that are neither a parent nor a child
ExpectedOthers ==
    SelectSeq(CombinedByType,
              LAMBDA n : n \notin DictKeys(hierarchy.p2c) /\ n \notin hierarchy.child)

\* C18: planning view: the table "Other Issues" has one row, not indented, for
\* each issue of the combined list that is neither a key of the map nor in the
\* child set, in the order of the combined list (the types in their fixed order);
\* the section is left out without such an issue, and the section "Parent Issues"
\* is left out when no issue is a parent.
C18_OtherIssuesSection ==
    (output_report = "planning" /\ report_pc = "returned") =>
        LET others == SectionHeaders(md_file, "Other Issues")
            parents == SectionHeaders(md_file, "Parent Issues")
        IN /\ IF ExpectedOthers = <<>> THEN others = {}
              ELSE /\ Cardinality(others) = 1
                   /\ \A i \in others :
                         /\ i + 2 = Len(ReportCalls(md_file))
                         /\ md_file[i + 2].op = "table"
                         /\ LinkCells(md_file[i + 2]) =
                               [j \in 1..Len(ExpectedOthers) |->
                                   LinkCell(FALSE, ExpectedOthers[j])]
           /\ (DictKeys(hierarchy.p2c) \cap SeqToSet(CombinedByType) = {}) => parents = {}

\* C18 witness: a planning report with both sections: a parent with its child,
\* and, in "Other Issues", the one issue that is neither, which the combined list
\* holds before the parent.
C18_Witness ==
    /\ output_report = "planning"
    /\ report_pc = "returned"
    /\ SectionHeaders(md_file, "Parent Issues") # {}
    /\ SectionHeaders(md_file, "Other Issues") # {}
    /\ Len(ExpectedOthers) = 1
    /\ hierarchy.child # {}
    /\ CombinedByType[1] = ExpectedOthers[1]
    /\ DictKeys(issues_map) = SeqToSet(ISSUE_TYPES)
    /\ BugsList(issues_map) # <<>>
    /\ BugsList(issues_map) # CombinedByType

(***************************************************************************)
(* Properties of create_release_theme.                                     *)
(***************************************************************************)
\* how many of the helper calls of the running call are calls of `name`
HelperCalls(name) == Cardinality({i \in 1..Len(helper_calls) : helper_calls[i] = name})

\* both date cells of the row parse
ValidDates ==
    parse_date(theme_row.StartDate).raised = "" /\ parse_date(theme_row.EndDate).raised = ""

\* C19: a dry run over a row with valid dates never raises, never calls
\* check_issue_exists and runs no command that changes the repository or a
\* project (label create, issue create, project item-add, field update); when it
\* returns, it returns "https://github.com/<repo>/issues/DRY-RUN" and has called
\* ensure_label_exists exactly once.
C19_DryRunChangesNothing ==
    (theme_pc # "idle" /\ dry_run /\ ValidDates) =>
        /\ theme_pc # "raised"
        /\ HelperCalls("check_issue_exists") = 0
        /\ \A i \in 1..Len(gh_log) : ~StateChanging(gh_log[i])
        /\ created_titles = <<>>
        /\ theme_pc = "returned" =>
              /\ theme_result = ReturnStr("https://github.com/NASA-PDS/registry/issues/DRY-RUN")
              /\ HelperCalls("ensure_label_exists") = 1

\* C19 witness: a dry run over a row with valid dates has returned the DRY-RUN
\* URL; the one command it ran is the label list of ensure_label_exists.
C19_Witness ==
    /\ dry_run
    /\ ValidDates
    /\ theme_pc = "returned"
    /\ theme_result = ReturnStr("https://github.com/NASA-PDS/registry/issues/DRY-RUN")
    /\ gh_log = <<GhCommand("label list", theme_row.Repo)>>
    /\ HelperCalls("ensure_label_exists") = 1

\* the answer of `gh issue list` lists an issue whose title is exactly `title`,
\* after objects only
ListsExactTitle(title) ==
    /\ issue_list_result.returncode = 0
    /\ issue_list_result.stdout.t = "list"
    /\ \E i \in 1..Len(issue_list_result.stdout.items) :
          /\ issue_list_result.stdout.items[i] = IssueItem(title)
          /\ \A j \in 1..(i - 1) : issue_list_result.stdout.items[j].t = "obj"

\* C20: outside a dry run, a call whose existence check is answered with an
\* issue titled exactly "B<build_number> <Title>" returns "SKIPPED" after that
\* one list command (no label, issue-create or project command), and only such a
\* call returns "SKIPPED"; the step of a call that sees the issue creates none,
\* so a second run over a row whose issue is listed adds no duplicate.
C20_ExistingIssueSkipped ==
    /\ [](LET title == "B" \o ToString(build_number) \o " " \o theme_row.Title
              listed == HelperCalls("check_issue_exists") = 1 /\ ListsExactTitle(title)
          IN /\ listed => /\ theme_pc = "returned"
                          /\ theme_result = ReturnStr("SKIPPED")
                          /\ gh_log = <<GhCommand("issue list", title)>>
             /\ theme_result = ReturnStr("SKIPPED") => (~dry_run /\ listed))
    /\ [][ListsExactTitle("B" \o ToString(build_number) \o " " \o theme_row.Title)'
              => created_titles' = created_titles]_vars

\* C20 witness: the first run created the issue; the second run, whose check
\* lists it under its exact title, returned "SKIPPED" and the repository still
\* holds it once.
C20_Witness ==
    /\ theme_calls = 2
    /\ ~dry_run
    /\ theme_pc = "returned"
    /\ theme_result = ReturnStr("SKIPPED")
    /\ ListsExactTitle("B17 Cloud")
    /\ created_titles = <<"B17 Cloud">>

\* C21: a call over a row whose issue does not already exist and one of whose
\* dates is not a valid YYYY-MM-DD date does not raise, does not ensure the
\* label and runs no command but the existence check; when it returns, it
\* returns None.
C21_InvalidDatesReturnNone ==
    (theme_pc # "idle" /\ ~ValidDates /\ theme_exists \in {"not called", "False"}) =>
        /\ theme_pc # "raised"
        /\ HelperCalls("ensure_label_exists") = 0
        /\ \A i \in 1..Len(gh_log) : gh_log[i].cmd = "issue list"
        /\ theme_pc = "returned" => theme_result = ReturnNone

\* the running call has run `gh issue create` and the command failed
IssueCreateFailed ==
    /\ \E i \in 1..Len(gh_log) : gh_log[i].cmd = "issue create"
    /\ issue_create_result.returncode # 0

\* C22: a call whose `gh issue create` returns a non-zero code returns None at
\* once: the command is the last one it runs, so no project lookup, no project
\* item-add and no field update follows.
C22_FailedCreateReturnsNone ==
    IssueCreateFailed =>
        /\ theme_pc = "returned"
        /\ theme_result = ReturnNone
        /\ gh_log[Len(gh_log)].cmd = "issue create"
        /\ \A i \in 1..Len(gh_log) :
              gh_log[i].cmd \notin {"project list", "project item-add",
                                    "api graphql query items", "api graphql query fields",
                                    "api graphql mutation"}
        /\ HelperCalls("find_project_id") = 0

\* C22 witness: outside a dry run, with valid dates and the label created, the
\* issue-create command failed and the call returned None.
C22_Witness ==
    /\ IssueCreateFailed
    /\ theme_pc = "returned"
    /\ theme_result = ReturnNone
    /\ gh_log = <<GhCommand("issue list", "B17 Cloud"),
                  GhCommand("label list", "NASA-PDS/registry"),
                  GhCommand("label create", "B17"),
                  GhCommand("issue create", "B17 Cloud")>>

(***************************************************************************)
(* Properties of ensure_label_exists and check_issue_exists.               *)
(***************************************************************************)
\* the label named label_name is one of the labels of the repository
LabelExists == \E i \in 1..Len(fn_labels) : fn_labels[i] = fn_name

\* the call ran `gh label create`
LabelCreateIssued == \E i \in 1..Len(fn_cmds) : fn_cmds[i].cmd = "label create"

\* C23: ensure_label_exists, its list command having succeeded, runs a
\* label-create command if and only if the label named label_name does not exist
\* in the repository and dry_run is false: with the label it returns True after
\* the list command alone; without it, it lists, creates and returns whether the
\* creation succeeded; in a dry run it returns True after the list command alone.
C23_LabelCreatedIffMissing ==
    (fn = "ensure_label_exists" /\ fn_pc = "returned" /\ fn_list_result.returncode = 0) =>
        /\ LabelCreateIssued <=> (~LabelExists /\ ~fn_dry_run)
        /\ (LabelExists \/ fn_dry_run) =>
              /\ fn_return = TRUE
              /\ fn_cmds = <<GhCommand("label list", "NASA-PDS/registry")>>
        /\ (~LabelExists /\ ~fn_dry_run) =>
              /\ fn_cmds = <<GhCommand("label list", "NASA-PDS/registry"),
                             GhCommand("label create", fn_name)>>
              /\ fn_return = (fn_create_result.returncode = 0)

\* the list lists an issue whose title is exactly the requested one
ExactTitleListed ==
    /\ fn_list_result.returncode = 0
    /\ fn_list_result.stdout.t = "list"
    /\ \E i \in 1..Len(fn_list_result.stdout.items) :
          fn_list_result.stdout.items[i] = IssueItem(fn_name)

\* every item of the list is an object, as `gh issue list --json` prints them
ListOfObjects ==
    \A i \in 1..Len(fn_list_result.stdout.items) : fn_list_result.stdout.items[i].t = "obj"

\* C24: check_issue_exists returns True only when the list command succeeded,
\* its output is a JSON list and one of the listed issues has exactly the
\* requested title, and it does return True for every such list of issue
\* objects (a title that contains the requested one does not count); it returns
\* False, without raising, when the command fails or the output is not JSON.
C24_TrueExactlyOnExactTitle ==
    (fn = "check_issue_exists" /\ fn_pc # "entered") =>
        /\ (fn_pc = "returned" /\ fn_return) => ExactTitleListed
        /\ (ExactTitleListed /\ ListOfObjects) => (fn_pc = "returned" /\ fn_return)
        /\ (fn_list_result.returncode # 0 \/ fn_list_result.stdout.t = "text") =>
              (fn_pc = "returned" /\ ~fn_return)

\* C24 witness: the list holds a title that contains the requested one, then the
\* requested title itself: the call returned True.
C24_Witness ==
    /\ fn = "check_issue_exists"
    /\ fn_pc = "returned"
    /\ fn_return
    /\ fn_list_result = GhResult(0, IssuesList(<<IssueItem("B17 Cloud (copy)"),
                                                 IssueItem("B17 Cloud")>>))

(***************************************************************************)
(* More properties of build_parent_child_map.                              *)
(***************************************************************************)
\* the sub-issue fetches of a whole first pass: one for each issue, in list order
ExpectedSubFetches == [j \in 1..Len(issues_list) |-> Fetch("sub", issues_list[j])]

\* the parent fetches of a whole second pass: one for each issue of the list
\* that the first pass did not make a key, in list order
ExpectedParentFetches ==
    LET rest == SelectSeq(issues_list, LAMBDA n : n \notin DictKeys(forward_map))
    IN [j \in 1..Len(rest) |-> Fetch("parent", rest[j])]

\* C25: the fetches of a call are, in this order, one sub-issue fetch for each
\* issue of the list in list order and then, only when fetch_parents is true,
\* one parent fetch for each issue of the list that the first pass did not make
\* a key, in list order: a call under way has made a prefix of them, a call that
\* returned has made them all, and without fetch_parents no parent is fetched.
C25_FetchOrder ==
    pc # "idle" =>
        LET expected == ExpectedSubFetches \o
                           (IF fetch_parents THEN ExpectedParentFetches ELSE <<>>)
        IN /\ pc = "first_pass" => IsPrefix(fetch_log, ExpectedSubFetches)
           /\ pc = "second_pass" => IsPrefix(fetch_log, expected)
           /\ pc = "done" => fetch_log = expected
           /\ ~fetch_parents => \A i \in 1..Len(fetch_log) : fetch_log[i].kind = "sub"
           /\ \A i \in 1..Len(fetch_log) :
                 fetch_log[i].kind = "parent" =>
                    /\ Len(fetch_log) >= Len(issues_list)
                    /\ SubSeq(fetch_log, 1, Len(issues_list)) = ExpectedSubFetches
                    /\ i > Len(issues_list)
                    /\ fetch_log[i].number \notin DictKeys(forward_map)

\* C25 witness: a call with fetch_parents over the issues 2 and 1 has returned;
\* the first pass made 1 a key, so after the two sub-issue fetches the parent of
\* 2 alone was fetched.
C25_Witness ==
    /\ pc = "done"
    /\ fetch_parents
    /\ issues_list = <<2, 1>>
    /\ DictKeys(forward_map) = {1}
    /\ fetch_log = <<Fetch("sub", 2), Fetch("sub", 1), Fetch("parent", 2)>>

\* C26: in every result the keys of fetched_parents are the keys of
\* parent_to_children that are no numbers of issues of the list, and
\* fetched_parents is empty without fetch_parents; from the end of the first
\* pass on, the entries whose key is a number of the list are those the first
\* pass left: the second pass adds none and extends none.
C26_FetchedParentsAreOutsideKeys ==
    /\ pc = "done" =>
          /\ DictKeys(fetched_parents) =
                DictKeys(parent_to_children) \ IssueMapKeys(issues_list)
          /\ ~fetch_parents => fetched_parents = <<>>
    /\ pc \in {"second_pass", "done"} =>
          \A k \in IssueMapKeys(issues_list) :
              /\ k \in DictKeys(parent_to_children) <=> k \in DictKeys(forward_map)
              /\ k \in DictKeys(forward_map) =>
                    DictGet(parent_to_children, k) = DictGet(forward_map, k)

\* C26 witness: over the issues 1 and 2 the first pass made 1 a key (of its
\* child 2) and the second pass fetched 9, outside the list, as a parent: the
\* map has the keys 1 and 9, fetched_parents the key 9.
C26_Witness ==
    /\ pc = "done"
    /\ fetch_parents
    /\ issues_list = <<1, 2>>
    /\ DictKeys(forward_map) = {1}
    /\ DictKeys(parent_to_children) = {1, 9}
    /\ DictKeys(fetched_parents) = {9}

(***************************************************************************)
(* Every issue in one row.                                                 *)
(***************************************************************************)
\* how many rows of the tables of the report are rows of the issue n
RowCount(n) ==
    LET cells == Concat([j \in 1..Len(Tables(md_file)) |-> LinkCells(Tables(md_file)[j])])
    IN Cardinality({i \in 1..Len(cells) : cells[i].number = n})

\* C27: known-bugs view with grouping over a bug list that is not empty: every
\* bug of the list has exactly one row in the table, top-level or indented,
\* whatever hierarchy the sub-issue fetches produce.
C27_EveryBugInOneRow ==
    (output_report = "known_bugs" /\ report_pc = "returned" /\ show_parent_child
        /\ RunBugs # <<>>) =>
        \A b \in SeqToSet(RunBugs) : RowCount(b) = 1

\* C28: planning view with grouping: every issue of the combined list has
\* exactly one row across the tables "Parent Issues" and "Other Issues",
\* whatever the hierarchy and the open/closed states.
C28_EveryIssueInOneRow ==
    (output_report = "planning" /\ report_pc = "returned" /\ show_parent_child) =>
        \A n \in SeqToSet(AllIssues(issues_map)) : RowCount(n) = 1

(***************************************************************************)
(* The order of the side effects of create_release_theme.                  *)
(***************************************************************************)
\* the positions of the commands `cmd` in the log of the running call
LogPositions(cmd) == {i \in 1..Len(gh_log) : gh_log[i].cmd = cmd}

\* the positions of the calls of the helper `name` in the running call
CallPositions(name) == {i \in 1..Len(helper_calls) : helper_calls[i] = name}

\* every position of a comes before every position of b
AllBefore(a, b) == \A i \in a, j \in b : i < j

\* C29: outside a dry run the existence check comes before the parsing of the
\* dates, that before the label step, that before `issue create`, of which a
\* call runs at most one; `project item-add` comes only after a successful
\* create and with a project found, and a field update only after a successful
\* item-add and with an item id found; once the issue is created the call does
\* not raise and what it returns is the URL the create command printed, whatever
\* the label step and the project steps answered.
C29_OrderOfSideEffects ==
    (theme_pc # "idle" /\ ~dry_run) =>
        /\ CallPositions("parse_date") # {} => CallPositions("check_issue_exists") # {}
        /\ AllBefore(CallPositions("check_issue_exists"), CallPositions("parse_date"))
        /\ CallPositions("ensure_label_exists") # {} =>
              Cardinality(CallPositions("parse_date")) = 2
        /\ AllBefore(CallPositions("parse_date"), CallPositions("ensure_label_exists"))
        /\ AllBefore(LogPositions("issue list"), LogPositions("label list"))
        /\ LogPositions("issue create") # {} => LogPositions("label list") # {}
        /\ AllBefore(LogPositions("label list") \cup LogPositions("label create"),
                     LogPositions("issue create"))
        /\ Cardinality(LogPositions("issue create")) <= 1
        /\ LogPositions("project item-add") # {} =>
              /\ LogPositions("issue create") # {}
              /\ issue_create_result.returncode = 0
              /\ project_ids.project_number # ""
              /\ project_ids.project_node_id # ""
              /\ AllBefore(LogPositions("issue create") \cup LogPositions("project list"),
                           LogPositions("project item-add"))
        /\ (LogPositions("api graphql mutation") # {}
               \/ LogPositions("api graphql query fields") # {}
               \/ CallPositions("set_project_field") # {}) =>
              /\ LogPositions("project item-add") # {}
              /\ item_add_result.returncode = 0
              /\ item_id # ""
              /\ AllBefore(LogPositions("project item-add")
                              \cup LogPositions("api graphql query items"),
                           LogPositions("api graphql query fields")
                              \cup LogPositions("api graphql mutation"))
        /\ (LogPositions("issue create") # {} /\ issue_create_result.returncode = 0) =>
              /\ theme_pc # "raised"
              /\ theme_pc = "returned" =>
                    /\ ~theme_result.none
                    /\ theme_result.value \o "\n" = issue_create_result.stdout

\* C29 witness: a call over a row whose product cell is empty that created the
\* issue although the creation of the label failed, added it to the project of
\* the build, found the item and set the product field and the two dates, then
\* returned the URL of the issue.
C29_Witness ==
    /\ ~dry_run
    /\ theme_pc = "returned"
    /\ theme_result = ReturnStr("https://github.com/NASA-PDS/registry/issues/1")
    /\ theme_row.Product = ProductNaN
    /\ gh_log = <<GhCommand("issue list", "B17 Cloud"),
                  GhCommand("label list", "NASA-PDS/registry"),
                  GhCommand("label create", "B17"),
                  GhCommand("issue create", "B17 Cloud"),
                  GhCommand("project list", "NASA-PDS"),
                  GhCommand("project item-add", "7"),
                  GhCommand("api graphql query items",
                            "https://github.com/NASA-PDS/registry/issues/1"),
                  GhCommand("api graphql query fields", "Product"),
                  GhCommand("api graphql mutation", "Product"),
                  GhCommand("api graphql query fields", "Start date"),
                  GhCommand("api graphql mutation", "Start date"),
                  GhCommand("api graphql query fields", "End date"),
                  GhCommand("api graphql mutation", "End date")>>

\* the rows of the CSV file that have a Title and a Repo
RowsWithTitleAndRepo == SelectSeq(csv_rows, LAMBDA r : r.Title # "" /\ r.Repo # "")

\* the list the claim gives to a call that ended this way
ListOfOutcome(o) ==
    IF o.raised \/ o.result.none THEN "failed"
    ELSE IF o.result.value = "SKIPPED" THEN "skipped"
    ELSE "created"

\* the full titles of the first n rows whose call ended for the list named
RECURSIVE TitlesFor(_, _)
TitlesFor(list, n) ==
    IF n = 0 THEN <<>>
    ELSE LET before == TitlesFor(list, n - 1)
         IN IF ListOfOutcome(outcomes[n]) = list
            THEN Append(before, "B17 " \o RowsWithTitleAndRepo[n].Title)
            ELSE before

\* C30: every row of the CSV file with a Title and a Repo that the loop has taken
\* is in exactly one of the lists created, skipped and failed: created when
\* create_release_theme returned a URL, skipped when it returned "SKIPPED",
\* failed when it returned None or raised; the loop takes every such row,
\* whatever happened to the rows before it; and the exit status is 0 exactly
\* when the failed list is empty.
C30_EveryRowInOneList ==
    main_pc \in {"loop", "exited"} =>
        /\ Len(outcomes) <= Len(RowsWithTitleAndRepo)
        /\ [i \in 1..Len(created_issues) |-> created_issues[i][1]]
               = TitlesFor("created", Len(outcomes))
        /\ skipped_issues = TitlesFor("skipped", Len(outcomes))
        /\ failed_issues = TitlesFor("failed", Len(outcomes))
        /\ main_pc = "exited" =>
               /\ Len(outcomes) = Len(RowsWithTitleAndRepo)
               /\ (exit_status = 0) <=> (failed_issues = <<>>)
               /\ exit_status \in {0, 1}

\* the run has ended; the first row had no start date and the call raised, the
\* second row was then taken and its issue created; the exit status is 1
C30_Witness ==
    /\ main_pc = "exited"
    /\ Len(RowsWithTitleAndRepo) = 2
    /\ Len(outcomes) = 2
    /\ outcomes[1].raised
    /\ failed_issues = <<"B17 Data">>
    /\ Len(created_issues) = 1
    /\ created_issues[1][1] = "B17 Cloud"
    /\ ~dry_run
    /\ exit_status = 1

=============================================================================
